---- MODULE Spec2Model ----
(***************************************************************************)
(* Model of ibkr-beancount-compare: the pipeline that normalizes the       *)
(* broker's cash transactions, resolves symbols, parses the ledger         *)
(* register output and reports the broker transactions that have no        *)
(* offsetting ledger entry.                                                *)
(*                                                                         *)
(* Representation                                                          *)
(*   str            a TLA+ string; a register line, which the code indexes *)
(*                  by column, is a sequence of one-character strings      *)
(*   Optional[str]  None is <<>>, a present value s is <<s>>               *)
(*   date           [y, m, d]; datetime adds hh, mi, ss                    *)
(*   Decimal        an integer number of thousandths.  Every amount of the *)
(*                  model has far fewer significant digits than the        *)
(*                  decimal context's precision, so unary minus and ==     *)
(*                  are exact on it, as they are in the code               *)
(*   exception      a call that raises returns [err |-> <exception type>]  *)
(***************************************************************************)
EXTENDS Integers, Sequences, FiniteSets, TLC

VARIABLES
    pc,                    \* position of the run
    symbols_file,          \* the symbol table: [exists, rows]
    meta,                  \* map_symbols: the row it was last applied to
    mapped,                \* map_symbols: what it returned for meta
    securities_map,        \* load_symbols: what it returned
    ib_tx_list,            \* the raw broker records, as read from the export
    common_txs,            \* convert_ib_txs_into_common: what it returned
    common_txs_py,         \* convert_ib_txs_into_common_py: what it returned
    ib_common_txs,         \* compare_txs_py: broker transactions
    ledger_common_txs,     \* compare_txs_py: ledger transactions
    use_effective_date,    \* compare_txs_py: date mode
    result_output_lines,   \* compare_txs_py: the lines appended, in order
    new_ix,                \* the position in ib_common_txs each line was appended for
    report,                \* compare_txs_py: the string it returned
    register_rows,         \* the postings the ledger query prints
    ledger_output,         \* the lines the ledger query printed
    cleaned_lines,         \* clean_up_register_output: what it returned
    row_line,              \* get_row_from_register_line: the line it was applied to
    row_header,            \* get_row_from_register_line: the header it was given
    row_result,            \* get_row_from_register_line: what it returned
    xml_doc,               \* the broker export: [parses, cash_transactions]
    parsed_cash_txs,       \* from_xml_content: the cash transactions it returned
    params,                \* compare_py: the report its parameters name
    start_date_for_ledger, \* get_oldest_ib_date_py: what it returned
    comparison_result,     \* compare_py: the string it returned
    report_again,          \* compare_txs_py: what a second call returned
    securities_map_again,  \* load_symbols: what a second call returned
    files,                 \* the files matching the pattern, in glob's order
    latest_file,           \* get_latest_filename: what it returned
    type_codes,            \* the type codes the two translators were applied to
    kinds                  \* what cash_action and get_cash_action_string returned

parser_vars == <<cleaned_lines, row_line, row_header, row_result>>

xml_vars == <<xml_doc, parsed_cash_txs>>

run_vars == <<params, start_date_for_ledger, comparison_result>>

again_vars == <<report_again, securities_map_again>>

files_vars == <<files, latest_file>>

types_vars == <<type_codes, kinds>>

\* the variables of the operations that are modelled on their own
ext_vars == <<parser_vars, xml_vars, run_vars, again_vars, files_vars, types_vars>>

ext_but_parser == <<xml_vars, run_vars, again_vars, files_vars, types_vars>>

ext_but_xml == <<parser_vars, run_vars, again_vars, files_vars, types_vars>>

ext_but_run == <<parser_vars, xml_vars, again_vars, files_vars, types_vars>>

ext_but_again == <<parser_vars, xml_vars, run_vars, files_vars, types_vars>>

ext_but_files == <<parser_vars, xml_vars, run_vars, again_vars, types_vars>>

ext_but_types == <<parser_vars, xml_vars, run_vars, again_vars, files_vars>>

vars == <<pc, symbols_file, meta, mapped, securities_map, ib_tx_list, common_txs,
          common_txs_py,
          ib_common_txs, ledger_common_txs, use_effective_date,
          result_output_lines, new_ix, report, register_rows, ledger_output,
          ext_vars>>

(***************************************************************************)
(* Bounds of the model.                                                    *)
(***************************************************************************)
MaxIbTxs == 2
MaxLedgerTxs == 2
MaxSymbolRows == 2
MaxRawTxs == 2
MaxRegisterRows == 2
MaxXmlElems == 2
MaxFiles == 3

(***************************************************************************)
(* Strings, numbers and dates.                                             *)
(***************************************************************************)
Digit == <<"0", "1", "2", "3", "4", "5", "6", "7", "8", "9">>

RECURSIVE NatStr(_)
NatStr(n) == IF n < 10 THEN Digit[n + 1] ELSE NatStr(n \div 10) \o Digit[(n % 10) + 1]

RECURSIVE Spaces(_)
Spaces(n) == IF n <= 0 THEN "" ELSE " " \o Spaces(n - 1)

RECURSIVE Zeros(_)
Zeros(n) == IF n <= 0 THEN "" ELSE "0" \o Zeros(n - 1)

\* "%02d" / "%04d" of strftime
ZeroPad(n, width) == Zeros(width - Len(NatStr(n))) \o NatStr(n)

\* format spec "<w": left-aligned in at least w columns
LeftAlign(s, width) == s \o Spaces(width - Len(s))

\* format spec ">w": right-aligned in at least w columns
RightAlign(s, width) == Spaces(width - Len(s)) \o s

RECURSIVE Join(_)
Join(parts) == IF parts = <<>> THEN "" ELSE Head(parts) \o Join(Tail(parts))

\* date.strftime("%Y-%m-%d")
strftime_iso(d) == ZeroPad(d.y, 4) \o "-" \o ZeroPad(d.m, 2) \o "-" \o ZeroPad(d.d, 2)

Abs(a) == IF a < 0 THEN 0 - a ELSE a

\* Decimal.__neg__
Neg(a) == 0 - a

\* format spec ".2f" of a Decimal: quantized to two places, ties to even
Format2f(a) ==
    LET mag == Abs(a)
        q0 == mag \div 10
        r == mag % 10
        q == IF r > 5 \/ (r = 5 /\ q0 % 2 = 1) THEN q0 + 1 ELSE q0
    IN (IF a < 0 THEN "-" ELSE "") \o NatStr(q \div 100) \o "." \o ZeroPad(q % 100, 2)

\* CommonTransaction.__str__
CommonTransaction_str(tx) ==
    tx.report_date \o "/" \o strftime_iso(tx.date) \o " "
    \o LeftAlign(tx.symbol, 6) \o " " \o LeftAlign(tx.type, 8) \o " "
    \o RightAlign(Format2f(tx.amount), 10) \o " "
    \o tx.currency \o ", " \o tx.description

(***************************************************************************)
(* Symbol Resolver (src/ibflex_reader.py, src/symbols.py).                 *)
(***************************************************************************)
None == <<>>
Some(s) == <<s>>

\* truth value of an Optional[str]: None and "" are falsy
Truthy(opt) == opt # None /\ opt[1] # ""

\* f"{opt}" of an Optional[str]
FStr(opt) == IF opt = None THEN "None" ELSE opt[1]

NoPair == [err |-> "", ib_symbol |-> "", ledger_symbol |-> ""]

map_symbols_NamespaceFirst(m) ==
    LET ledger_symbol == IF Truthy(m.ledger_symbol) THEN m.ledger_symbol[1] ELSE m.symbol
    IN IF m.namespace # None
       THEN [err |-> "", ib_symbol |-> FStr(m.namespace) \o ":" \o m.symbol,
             ledger_symbol |-> ledger_symbol]
       ELSE IF Truthy(m.ib_symbol)
       THEN [err |-> "", ib_symbol |-> m.ib_symbol[1], ledger_symbol |-> ledger_symbol]
       ELSE [NoPair EXCEPT !.err = "ValueError"]

map_symbols(m) ==
    LET ledger_symbol == IF Truthy(m.ledger_symbol) THEN m.ledger_symbol[1] ELSE m.symbol
    IN IF Truthy(m.ib_symbol)
       THEN [err |-> "", ib_symbol |-> m.ib_symbol[1], ledger_symbol |-> ledger_symbol]
       ELSE IF m.namespace = None
       THEN [NoPair EXCEPT !.err = "ValueError"]
       ELSE [err |-> "", ib_symbol |-> FStr(m.namespace) \o ":" \o m.symbol,
             ledger_symbol |-> ledger_symbol]

\* read_symbols: one SymbolMetadata per row of the table, in table order; a cell
\* the row leaves blank arrives as "", a cell the row does not have as None
read_symbols(file) == IF file.exists THEN file.rows ELSE <<>>

EmptyMap == [k \in {} |-> ""]

\* the same keeping the value a key already has
DictSet_KeepFirst(d, key, value) ==
    [k \in DOMAIN d \cup {key} |-> IF k \in DOMAIN d THEN d[k] ELSE value]

\* d[key] = value on a dict
DictSet(d, key, value) ==
    [k \in DOMAIN d \cup {key} |-> IF k = key THEN value ELSE d[k]]

\* the for loop of load_symbols from row i, securities_map being d so far
RECURSIVE LoadFrom(_, _, _)
LoadFrom(symbol_metadata_list, i, d) ==
    IF i > Len(symbol_metadata_list) THEN d
    ELSE LET r == map_symbols(symbol_metadata_list[i])
         IN IF r.err = "ValueError"
            THEN LoadFrom(symbol_metadata_list, i + 1, d)
            ELSE LoadFrom(symbol_metadata_list, i + 1,
                          DictSet(d, r.ib_symbol, r.ledger_symbol))

load_symbols(file) ==
    IF ~file.exists THEN [err |-> "FileNotFoundError", map |-> EmptyMap]
    ELSE [err |-> "", map |-> LoadFrom(read_symbols(file), 1, EmptyMap)]

(***************************************************************************)
(* Broker Transaction Normalizer (src/ibflex_reader.py).                   *)
(***************************************************************************)
KnownTypeCodes ==
    {"Deposits/Withdrawals", "Broker Interest Paid", "Broker Interest Received",
     "Withholding Tax", "Bond Interest Received", "Bond Interest Paid",
     "Other Fees", "Dividends", "Payment In Lieu Of Dividends",
     "Commission Adjustments"}

\* class CashAction of flex_enums.py: each member's value
CashAction ==
    [DepositWithdraw |-> "DepositWithdraw", BrokerIntPaid |-> "BrokerIntPaid",
     BrokerIntRcvd |-> "BrokerIntRcvd", WhTax |-> "WhTax",
     BondIntRcvd |-> "BondIntRcvd", BondIntPaid |-> "BondIntPaid",
     Fees |-> "Fees", Dividend |-> "Dividend", PaymentInLieu |-> "PaymentInLieu",
     CommAdj |-> "CommAdj"]

\* the same with the fees translated as commission adjustments
cash_action_FeesAsCommAdj(action) ==
    LET mapping == "Deposits/Withdrawals" :> CashAction.DepositWithdraw
                   @@ "Broker Interest Paid" :> CashAction.BrokerIntPaid
                   @@ "Broker Interest Received" :> CashAction.BrokerIntRcvd
                   @@ "Withholding Tax" :> CashAction.WhTax
                   @@ "Bond Interest Received" :> CashAction.BondIntRcvd
                   @@ "Bond Interest Paid" :> CashAction.BondIntPaid
                   @@ "Other Fees" :> CashAction.CommAdj
                   @@ "Dividends" :> CashAction.Dividend
                   @@ "Payment In Lieu Of Dividends" :> CashAction.PaymentInLieu
                   @@ "Commission Adjustments" :> CashAction.CommAdj
    IN IF action \in DOMAIN mapping THEN mapping[action] ELSE "Unknown"

\* cash_action of flex_enums.py: mapping.get(action, "Unknown")
cash_action(action) ==
    LET mapping == "Deposits/Withdrawals" :> CashAction.DepositWithdraw
                   @@ "Broker Interest Paid" :> CashAction.BrokerIntPaid
                   @@ "Broker Interest Received" :> CashAction.BrokerIntRcvd
                   @@ "Withholding Tax" :> CashAction.WhTax
                   @@ "Bond Interest Received" :> CashAction.BondIntRcvd
                   @@ "Bond Interest Paid" :> CashAction.BondIntPaid
                   @@ "Other Fees" :> CashAction.Fees
                   @@ "Dividends" :> CashAction.Dividend
                   @@ "Payment In Lieu Of Dividends" :> CashAction.PaymentInLieu
                   @@ "Commission Adjustments" :> CashAction.CommAdj
    IN IF action \in DOMAIN mapping THEN mapping[action] ELSE "Unknown"

get_cash_action_string(ib_action_code) ==
    CASE ib_action_code = "Deposits/Withdrawals" -> [err |-> "", val |-> "DepositWithdraw"]
      [] ib_action_code = "Broker Interest Paid" -> [err |-> "", val |-> "BrokerIntPaid"]
      [] ib_action_code = "Broker Interest Received" -> [err |-> "", val |-> "BrokerIntRcvd"]
      [] ib_action_code = "Withholding Tax" -> [err |-> "", val |-> "WhTax"]
      [] ib_action_code = "Bond Interest Received" -> [err |-> "", val |-> "BondIntRcvd"]
      [] ib_action_code = "Bond Interest Paid" -> [err |-> "", val |-> "BondIntPaid"]
      [] ib_action_code = "Other Fees" -> [err |-> "", val |-> "Fees"]
      [] ib_action_code = "Dividends" -> [err |-> "", val |-> "Dividend"]
      [] ib_action_code = "Payment In Lieu Of Dividends" -> [err |-> "", val |-> "PaymentInLieu"]
      [] ib_action_code = "Commission Adjustments" -> [err |-> "", val |-> "CommAdj"]
      [] OTHER -> [err |-> "ValueError", val |-> ""]

\* datetime.date()
DateOf(dt) == [y |-> dt.y, m |-> dt.m, d |-> dt.d]

\* the same taking the report date from the effective date
ib_cash_transaction_to_common_ReportDateOfDate(ib_tx) ==
    LET t == get_cash_action_string(ib_tx.type_code)
    IN [err |-> t.err,
        val |-> [date |-> DateOf(ib_tx.date_time_obj),
                 report_date |-> strftime_iso(DateOf(ib_tx.date_time_obj)),
                 symbol |-> ib_tx.symbol,
                 type |-> t.val,
                 amount |-> ib_tx.amount,
                 currency |-> ib_tx.currency,
                 description |-> ib_tx.description]]

\* ib_cash_transaction_to_common: raises what get_cash_action_string raises
ib_cash_transaction_to_common(ib_tx) ==
    LET t == get_cash_action_string(ib_tx.type_code)
    IN [err |-> t.err,
        val |-> [date |-> DateOf(ib_tx.date_time_obj),
                 report_date |-> ib_tx.report_date_str,
                 symbol |-> ib_tx.symbol,
                 type |-> t.val,
                 amount |-> ib_tx.amount,
                 currency |-> ib_tx.currency,
                 description |-> ib_tx.description]]

to_include_types == {"Dividend", "WhTax", "PaymentInLieu"}

\* the symbol of a retained record under the table
MapSymbol_Twice(symbol, symbols_map) ==
    LET once == IF symbol \in DOMAIN symbols_map THEN symbols_map[symbol] ELSE symbol
    IN IF once \in DOMAIN symbols_map THEN symbols_map[once] ELSE once

MapSymbol(symbol, symbols_map) ==
    IF symbol \in DOMAIN symbols_map THEN symbols_map[symbol] ELSE symbol

\* whether the loop keeps a converted record
IsIncluded_NoWhTax(common_tx) == common_tx.type \in {"Dividend", "PaymentInLieu"}

IsIncluded(common_tx) == common_tx.type \in to_include_types

\* the for loop of convert_ib_txs_into_common from record i, common_txs being acc
RECURSIVE ConvertFrom(_, _, _, _)
ConvertFrom(list, i, symbols_map, acc) ==
    IF i > Len(list) THEN [err |-> "", val |-> acc]
    ELSE LET c == ib_cash_transaction_to_common(list[i])
         IN IF c.err # "" THEN [err |-> c.err, val |-> <<>>]
            ELSE IF ~IsIncluded(c.val)
            THEN ConvertFrom(list, i + 1, symbols_map, acc)
            ELSE ConvertFrom(list, i + 1, symbols_map,
                     Append(acc, [c.val EXCEPT
                                    !.symbol = MapSymbol(c.val.symbol, symbols_map)]))

\* the same without the except clause around load_symbols
convert_ib_txs_into_common_Unguarded(list, file) ==
    LET loaded == load_symbols(file)
    IN IF loaded.err # "" THEN [err |-> loaded.err, val |-> <<>>]
       ELSE ConvertFrom(list, 1, loaded.map, <<>>)

convert_ib_txs_into_common(list, file) ==
    LET loaded == load_symbols(file)
        symbols_map == IF loaded.err = "FileNotFoundError" THEN EmptyMap ELSE loaded.map
    IN ConvertFrom(list, 1, symbols_map, <<>>)

(***************************************************************************)
(* The normalizer's duplicate in main.py, with its own type translator.    *)
(***************************************************************************)
main_get_cash_action_string(ib_action_code) ==
    CASE ib_action_code = "DIV" -> "Dividend"
      [] ib_action_code = "WHTAX" -> "Withholding Tax"
      [] ib_action_code = "LIEU" -> "PaymentInLieu"
      [] OTHER -> ib_action_code

main_ib_cash_transaction_to_common(ib_tx) ==
    [date |-> DateOf(ib_tx.date_time_obj),
     report_date |-> ib_tx.report_date_str,
     symbol |-> ib_tx.symbol,
     type |-> main_get_cash_action_string(ib_tx.type_code),
     amount |-> ib_tx.amount,
     currency |-> ib_tx.currency,
     description |-> ib_tx.description]

main_to_include_types == {"Dividend", "Withholding Tax", "PaymentInLieu"}

main_IsIncluded_NoWhTax(common_tx) == common_tx.type \in {"Dividend", "PaymentInLieu"}

main_IsIncluded(common_tx) == common_tx.type \in main_to_include_types

RECURSIVE main_ConvertFrom(_, _, _, _)
main_ConvertFrom(list, i, symbols_map, acc) ==
    IF i > Len(list) THEN [err |-> "", val |-> acc]
    ELSE LET c == main_ib_cash_transaction_to_common(list[i])
         IN IF ~main_IsIncluded(c)
            THEN main_ConvertFrom(list, i + 1, symbols_map, acc)
            ELSE main_ConvertFrom(list, i + 1, symbols_map,
                     Append(acc, [c EXCEPT !.symbol = MapSymbol(c.symbol, symbols_map)]))

\* main.py imports datetime, decimal, pathlib, typing, loguru's logger and
\* model; the name `logging` it calls is bound nowhere, so evaluating a
\* logging.debug / info / warning call raises NameError
main_logging == [err |-> "NameError"]

\* read_symbols_py of main.py is a stub that returns no rows
main_load_symbols_py(file) ==
    IF main_logging.err # "" THEN [err |-> main_logging.err, map |-> EmptyMap]
    ELSE IF ~file.exists THEN [err |-> "FileNotFoundError", map |-> EmptyMap]
    ELSE [err |-> "", map |-> LoadFrom(<<>>, 1, EmptyMap)]

convert_ib_txs_into_common_py(list, file) ==
    LET loaded == main_load_symbols_py(file)
        symbols_map == IF loaded.err = "FileNotFoundError" THEN EmptyMap ELSE loaded.map
    IN IF loaded.err \notin {"", "FileNotFoundError"}
       THEN [err |-> loaded.err, val |-> <<>>]
       ELSE IF main_logging.err # "" THEN [err |-> main_logging.err, val |-> <<>>]
       ELSE main_ConvertFrom(list, 1, symbols_map, <<>>)

(***************************************************************************)
(* Ledger Register Parser (src/ledger_reg_output_parser.py).  A line is a  *)
(* sequence of one-character strings; Python's 0-based positions are kept. *)
(***************************************************************************)
ColDateEnd == 10
ColPayee == 11
ColAccount == 46
ColAmount == 85
ColAmountEnd == 107
ColSkipProbe == 50

IsSpace(c) == c \in {" ", "\t"}

Min(a, b) == IF a < b THEN a ELSE b

\* s[a:b]
Slice(s, a, b) == SubSeq(s, a + 1, Min(b, Len(s)))

RECURSIVE LStrip(_)
LStrip(s) == IF s # <<>> /\ IsSpace(Head(s)) THEN LStrip(Tail(s)) ELSE s

RECURSIVE RStrip(_)
RStrip(s) == IF s # <<>> /\ IsSpace(s[Len(s)]) THEN RStrip(SubSeq(s, 1, Len(s) - 1)) ELSE s

\* str.strip()
Strip(s) == RStrip(LStrip(s))

\* the first whitespace-delimited token of s, s not starting with whitespace
RECURSIVE FirstToken(_)
FirstToken(s) ==
    IF s = <<>> \/ IsSpace(Head(s)) THEN <<>> ELSE <<Head(s)>> \o FirstToken(Tail(s))

\* str.split()
RECURSIVE Split(_)
Split(s) ==
    LET t == LStrip(s)
    IN IF t = <<>> THEN <<>>
       ELSE LET tok == FirstToken(t)
            IN <<tok>> \o Split(SubSeq(t, Len(tok) + 1, Len(t)))

\* str.replace(",", "")
RemoveCommas(s) == SelectSeq(s, LAMBDA c : c # ",")

DigitValue(c) == CHOOSE v \in 0..9 : Digit[v + 1] = c

IsDigit(c) == \E v \in 0..9 : Digit[v + 1] = c

AllDigits(s) == \A k \in 1..Len(s) : IsDigit(s[k])

RECURSIVE DigitsValue(_)
DigitsValue(s) ==
    IF s = <<>> THEN 0 ELSE 10 * DigitsValue(SubSeq(s, 1, Len(s) - 1)) + DigitValue(s[Len(s)])

\* position of the first "." of s, Len(s) + 1 when it has none
DotAt(s) ==
    IF \E k \in 1..Len(s) : s[k] = "."
    THEN CHOOSE k \in 1..Len(s) : s[k] = "." /\ \A h \in 1..(k - 1) : s[h] # "."
    ELSE Len(s) + 1

\* Decimal(text) for the plain notation [sign] digits [. digits] of up to three
\* places, in thousandths; any other text raises InvalidOperation
Decimal(text) ==
    LET neg == text # <<>> /\ Head(text) = "-"
        body == IF text # <<>> /\ Head(text) \in {"-", "+"} THEN Tail(text) ELSE text
        int == SubSeq(body, 1, DotAt(body) - 1)
        frac == SubSeq(body, DotAt(body) + 1, Len(body))
        wellformed == /\ Len(int) + Len(frac) > 0
                      /\ AllDigits(int) /\ AllDigits(frac)
                      /\ Len(frac) <= 3
        scaled == DigitsValue(int) * 1000
                  + DigitsValue(frac \o SubSeq(<<"0", "0", "0">>, 1, 3 - Len(frac)))
    IN IF ~wellformed THEN [err |-> "InvalidOperation", val |-> 0]
       ELSE [err |-> "", val |-> IF neg THEN 0 - scaled ELSE scaled]

DaysInMonth(y, m) ==
    IF m \in {4, 6, 9, 11} THEN 30
    ELSE IF m # 2 THEN 31
    ELSE IF y % 4 = 0 /\ (y % 100 # 0 \/ y % 400 = 0) THEN 29 ELSE 28

NoDate == [y |-> 0, m |-> 0, d |-> 0]

\* datetime.strptime(text, "%Y-%m-%d") for the ten-character form; any other
\* text raises ValueError
strptime_iso(text) ==
    IF /\ Len(text) = 10
       /\ text[5] = "-" /\ text[8] = "-"
       /\ AllDigits(SubSeq(text, 1, 4)) /\ AllDigits(SubSeq(text, 6, 7))
       /\ AllDigits(SubSeq(text, 9, 10))
    THEN LET y == DigitsValue(SubSeq(text, 1, 4))
             m == DigitsValue(SubSeq(text, 6, 7))
             d == DigitsValue(SubSeq(text, 9, 10))
         IN IF y >= 1 /\ m \in 1..12 /\ d >= 1 /\ d <= DaysInMonth(y, m)
            THEN [err |-> "", val |-> [y |-> y, m |-> m, d |-> d]]
            ELSE [err |-> "ValueError", val |-> NoDate]
    ELSE [err |-> "ValueError", val |-> NoDate]

\* clean_up_register_output: the loop from line i, new_lines being acc
RECURSIVE CleanUpFrom(_, _, _)
CleanUpFrom(lines, i, acc) ==
    IF i > Len(lines) THEN [err |-> "", val |-> acc]
    ELSE LET line == lines[i]
         IN IF Strip(line) = <<>> THEN CleanUpFrom(lines, i + 1, acc)
            ELSE IF Len(line) <= ColSkipProbe THEN [err |-> "IndexError", val |-> <<>>]
            ELSE IF line[ColSkipProbe + 1] = " " THEN CleanUpFrom(lines, i + 1, acc)
            ELSE CleanUpFrom(lines, i + 1, Append(acc, Strip(line)))

clean_up_register_output(lines) == CleanUpFrom(lines, 1, <<>>)

\* CommonTransaction(): the dataclass declares date, report_date, symbol, type,
\* amount, currency and description without defaults, so a call that passes
\* none of them raises TypeError
CommonTransaction_NoArgs == "TypeError"

NoRow == [date |-> NoDate, report_date |-> "", payee |-> "", account |-> "",
          amount |-> 0, currency |-> "", description |-> "", symbol |-> "",
          type |-> ""]

\* the same without the checks of the amount column's token count
get_row_from_register_line_NoAmountCheck(line, header) ==
    IF Strip(line) = <<>> THEN [err |-> "ValueError", val |-> NoRow]
    ELSE IF Len(line) < 2 THEN [err |-> "IndexError", val |-> NoRow]
    ELSE IF Split(Strip(Slice(line, ColAmount, ColAmountEnd))) = <<>>
    THEN [err |-> "IndexError", val |-> NoRow]
    ELSE [err |-> CommonTransaction_NoArgs, val |-> NoRow]

\* header is None (<<>>) or <<the previous row>>
get_row_from_register_line(line, header) ==
    IF Strip(line) = <<>> THEN [err |-> "ValueError", val |-> NoRow]
    ELSE IF Len(line) < 2 THEN [err |-> "IndexError", val |-> NoRow]
    ELSE
    LET has_symbol == line[2] # " "
        date_str == Strip(Slice(line, 0, ColDateEnd))
        payee_str == Strip(Slice(line, ColPayee, ColAccount))
        account_str == Strip(Slice(line, ColAccount, ColAmount))
        amount_str == Strip(Slice(line, ColAmount, ColAmountEnd))
        amount_parts == Split(amount_str)
    IN IF Len(amount_parts) > 2 THEN [err |-> "ValueError", val |-> NoRow]
       ELSE IF Len(amount_parts) # 2 THEN [err |-> "AssertionError", val |-> NoRow]
       ELSE IF CommonTransaction_NoArgs # "" THEN [err |-> CommonTransaction_NoArgs, val |-> NoRow]
       ELSE
       LET amount == RemoveCommas(amount_parts[1])
           parsed_date == strptime_iso(date_str)
           parsed_amount == Decimal(amount)
       IN IF date_str # <<>> /\ parsed_date.err # "" THEN [err |-> parsed_date.err, val |-> NoRow]
          ELSE IF date_str = <<>> /\ header = <<>> THEN [err |-> "AttributeError", val |-> NoRow]
          ELSE IF parsed_amount.err # "" THEN [err |-> parsed_amount.err, val |-> NoRow]
          ELSE IF has_symbol /\ payee_str = <<>> THEN [err |-> "IndexError", val |-> NoRow]
          ELSE LET date == IF date_str # <<>> THEN parsed_date.val ELSE header[1].date
               IN [err |-> "",
                   val |-> [date |-> date,
                            report_date |-> strftime_iso(date),
                            payee |-> IF payee_str # <<>> THEN Join(payee_str)
                                      ELSE header[1].payee,
                            account |-> Join(account_str),
                            amount |-> parsed_amount.val,
                            currency |-> "EUR",
                            description |-> "",
                            symbol |-> IF has_symbol THEN Join(Split(payee_str)[1]) ELSE "",
                            type |-> ""]]

\* get_rows_from_register: the loop from line i, txs being acc
RECURSIVE RowsFrom(_, _, _, _)
RowsFrom(ledger_lines, i, prev_row, acc) ==
    IF i > Len(ledger_lines) THEN acc
    ELSE LET tx == get_row_from_register_line(ledger_lines[i], prev_row)
         IN IF tx.err # "" THEN <<>>
            ELSE RowsFrom(ledger_lines, i + 1, <<tx.val>>, Append(acc, tx.val))

get_rows_from_register(ledger_lines) == RowsFrom(ledger_lines, 1, <<>>, <<>>)

(***************************************************************************)
(* Reconciliation Matcher (main.py).                                       *)
(***************************************************************************)
get_comparison_date_py_AlwaysEffective(common_tx, flag) == strftime_iso(common_tx.date)

get_comparison_date_py(common_tx, flag) ==
    IF flag THEN strftime_iso(common_tx.date) ELSE common_tx.report_date

\* the condition of the inner loop's if
IsMatch_NoType(ledger_tx, ibtx, ib_comparison_date_str) ==
    /\ strftime_iso(ledger_tx.date) = ib_comparison_date_str
    /\ ledger_tx.symbol = ibtx.symbol
    /\ ledger_tx.amount = Neg(ibtx.amount)
    /\ ledger_tx.currency = ibtx.currency

IsMatch_AbsAmount(ledger_tx, ibtx, ib_comparison_date_str) ==
    /\ strftime_iso(ledger_tx.date) = ib_comparison_date_str
    /\ ledger_tx.symbol = ibtx.symbol
    /\ Abs(ledger_tx.amount) = Abs(ibtx.amount)
    /\ ledger_tx.currency = ibtx.currency
    /\ ledger_tx.type = ibtx.type

IsMatch(ledger_tx, ibtx, ib_comparison_date_str) ==
    /\ strftime_iso(ledger_tx.date) = ib_comparison_date_str
    /\ ledger_tx.symbol = ibtx.symbol
    /\ ledger_tx.amount = Neg(ibtx.amount)
    /\ ledger_tx.currency = ibtx.currency
    /\ ledger_tx.type = ibtx.type

\* the inner for loop from position j: found_match at its end
RECURSIVE ScanLedger(_, _, _, _)
ScanLedger(ledger, j, ibtx, ib_comparison_date_str) ==
    IF j > Len(ledger) THEN FALSE
    ELSE IF IsMatch(ledger[j], ibtx, ib_comparison_date_str) THEN TRUE
    ELSE ScanLedger(ledger, j + 1, ibtx, ib_comparison_date_str)

\* the outer for loop with a matched ledger transaction removed from the list
RECURSIVE CompareFrom_Consuming(_, _, _, _)
CompareFrom_Consuming(ib, i, ledger, flag) ==
    IF i > Len(ib) THEN <<>>
    ELSE LET ibtx == ib[i]
             ib_comparison_date_str == get_comparison_date_py(ibtx, flag)
             hits == {j \in 1..Len(ledger) : IsMatch(ledger[j], ibtx, ib_comparison_date_str)}
             output_line == "New: " \o CommonTransaction_str(ibtx) \o "\n"
         IN IF hits # {}
            THEN LET j == CHOOSE h \in hits : \A g \in hits : h <= g
                 IN CompareFrom_Consuming(ib, i + 1,
                        SubSeq(ledger, 1, j - 1) \o SubSeq(ledger, j + 1, Len(ledger)), flag)
            ELSE <<[ix |-> i, line |-> output_line]>>
                 \o CompareFrom_Consuming(ib, i + 1, ledger, flag)

\* the outer for loop from position i: the lines appended from there on, each
\* with the position of the broker transaction it was appended for
RECURSIVE CompareFrom(_, _, _, _)
CompareFrom(ib, i, ledger, flag) ==
    IF i > Len(ib) THEN <<>>
    ELSE LET ibtx == ib[i]
             ib_comparison_date_str == get_comparison_date_py(ibtx, flag)
             found_match == ScanLedger(ledger, 1, ibtx, ib_comparison_date_str)
             output_line == "New: " \o CommonTransaction_str(ibtx) \o "\n"
             rest == CompareFrom(ib, i + 1, ledger, flag)
         IN IF found_match THEN rest
            ELSE <<[ix |-> i, line |-> output_line]>> \o rest

RECURSIVE Reverse(_)
Reverse(s) == IF s = <<>> THEN <<>> ELSE Append(Reverse(Tail(s)), Head(s))

\* the appends made when only the first ledger transaction is looked at
compare_txs_new_FirstLedgerOnly(ib, ledger, flag) ==
    CompareFrom(ib, 1, IF ledger = <<>> THEN <<>> ELSE <<ledger[1]>>, flag)

compare_txs_new_Reversed(ib, ledger, flag) == Reverse(CompareFrom(ib, 1, ledger, flag))

\* the appends of compare_txs_py, in the order it makes them
compare_txs_new(ib, ledger, flag) == CompareFrom(ib, 1, ledger, flag)

Lines(new) == [k \in 1..Len(new) |-> new[k].line]

\* the value compare_txs_py returns
compare_txs_py(ib, ledger, flag) == Join(Lines(compare_txs_new(ib, ledger, flag)))

(***************************************************************************)
(* Broker export (src/model.py): FlexQueryResponse.from_xml_content.  The  *)
(* document is [parses, cash_transactions]: whether it is well-formed XML, *)
(* and the CashTransaction elements of the first FlexStatement's           *)
(* CashTransactions element (None without one).  An attribute is None when *)
(* the element does not have it; dateTime and amount are character         *)
(* sequences.                                                              *)
(***************************************************************************)
\* the pieces of s between the occurrences of the character c
RECURSIVE SplitOn(_, _)
SplitOn(s, c) ==
    IF \A k \in 1..Len(s) : s[k] # c THEN <<s>>
    ELSE LET k == CHOOSE k \in 1..Len(s) : s[k] = c /\ \A h \in 1..(k - 1) : s[h] # c
         IN <<SubSeq(s, 1, k - 1)>> \o SplitOn(SubSeq(s, k + 1, Len(s)), c)

\* one or two digits
ShortNumber(s) == Len(s) \in 1..2 /\ AllDigits(s)

NoDateTime == [y |-> 0, m |-> 0, d |-> 0, hh |-> 0, mi |-> 0, ss |-> 0]

\* datetime.strptime(text, "%Y-%m-%d"): a four-digit year, month and day of one
\* or two digits; any other text raises ValueError
strptime_date(text) ==
    LET parts == SplitOn(text, "-")
    IN IF /\ Len(parts) = 3
          /\ Len(parts[1]) = 4 /\ AllDigits(parts[1])
          /\ ShortNumber(parts[2]) /\ ShortNumber(parts[3])
       THEN LET y == DigitsValue(parts[1])
                m == DigitsValue(parts[2])
                d == DigitsValue(parts[3])
            IN IF m \in 1..12 /\ d >= 1 /\ d <= DaysInMonth(y, m) /\ y >= 1
               THEN [err |-> "", val |-> [y |-> y, m |-> m, d |-> d,
                                          hh |-> 0, mi |-> 0, ss |-> 0]]
               ELSE [err |-> "ValueError", val |-> NoDateTime]
       ELSE [err |-> "ValueError", val |-> NoDateTime]

\* datetime.strptime(text, "%Y-%m-%d;%H:%M:%S")
strptime_datetime(text) ==
    LET halves == SplitOn(text, ";")
        day == strptime_date(halves[1])
        clock == SplitOn(halves[2], ":")
    IN IF Len(halves) # 2 \/ day.err # "" THEN [err |-> "ValueError", val |-> NoDateTime]
       ELSE IF /\ Len(clock) = 3
               /\ \A k \in 1..3 : ShortNumber(clock[k])
               /\ DigitsValue(clock[1]) <= 23
               /\ DigitsValue(clock[2]) <= 59
               /\ DigitsValue(clock[3]) <= 61
       THEN [err |-> "", val |-> [day.val EXCEPT !.hh = DigitsValue(clock[1]),
                                                 !.mi = DigitsValue(clock[2]),
                                                 !.ss = DigitsValue(clock[3])]]
       ELSE [err |-> "ValueError", val |-> NoDateTime]

DateTimeLength == 19

\* tx_elem.get(name, default)
AttrOr(opt, default) == IF opt = None THEN default ELSE opt[1]

\* the body of the loop for one element: a ValueError or TypeError is caught
\* and the element skipped, any other exception leaves from_xml_content
ParseCashTransaction(tx_elem) ==
    LET dt_str == tx_elem.dateTime
    IN IF dt_str = None \/ dt_str = Some(<<>>) THEN [err |-> "", skip |-> TRUE, val |-> <<>>]
       ELSE
       LET date_time_obj == IF Len(dt_str[1]) = DateTimeLength
                            THEN strptime_datetime(dt_str[1])
                            ELSE strptime_date(dt_str[1])
           amount_str == AttrOr(tx_elem.amount, <<"0">>)
           amount_val == Decimal(amount_str)
       IN IF date_time_obj.err # "" THEN [err |-> "", skip |-> TRUE, val |-> <<>>]
          ELSE IF amount_val.err # "" THEN [err |-> amount_val.err, skip |-> FALSE, val |-> <<>>]
          ELSE [err |-> "", skip |-> FALSE,
                val |-> <<[symbol |-> AttrOr(tx_elem.symbol, ""),
                           description |-> AttrOr(tx_elem.description, ""),
                           report_date_str |-> AttrOr(tx_elem.reportDate, ""),
                           date_time_obj |-> date_time_obj.val,
                           amount |-> amount_val.val,
                           currency |-> AttrOr(tx_elem.currency, ""),
                           type_code |-> AttrOr(tx_elem.type, "")]>>]

\* the for loop of from_xml_content from element i, parsed_cash_txs being acc
RECURSIVE ParseFrom(_, _, _)
ParseFrom(elems, i, acc) ==
    IF i > Len(elems) THEN [err |-> "", val |-> acc]
    ELSE LET r == ParseCashTransaction(elems[i])
         IN IF r.err # "" THEN [err |-> r.err, val |-> <<>>]
            ELSE ParseFrom(elems, i + 1, acc \o r.val)

from_xml_content(doc) ==
    IF ~doc.parses THEN [err |-> "", val |-> <<>>]
    ELSE IF doc.cash_transactions = None THEN [err |-> "", val |-> <<>>]
    ELSE ParseFrom(doc.cash_transactions[1], 1, <<>>)

(***************************************************************************)
(* Inputs.                                                                 *)
(***************************************************************************)
SeqsUpTo(S, n) == UNION {[1..k -> S] : k \in 0..n}

D0914 == [y |-> 2023, m |-> 9, d |-> 14]
D0915 == [y |-> 2023, m |-> 9, d |-> 15]

\* rows of the symbol table
SymbolRows ==
    [namespace : {None, Some(""), Some("NYSE")},
     symbol : {"BRK.B"},
     ledger_symbol : {None, Some(""), Some("BRK-B")},
     ib_symbol : {None, Some(""), Some("BRK B")}]

MissingFile == [exists |-> FALSE, rows |-> <<>>]

SymbolFiles ==
    {MissingFile} \cup {[exists |-> TRUE, rows |-> t] : t \in SeqsUpTo(SymbolRows, MaxSymbolRows)}

NoMeta == [namespace |-> None, symbol |-> "", ledger_symbol |-> None, ib_symbol |-> None]

\* raw broker records
RawBase ==
    [symbol |-> "BRK B", description |-> "BRK B CASH DIVIDEND",
     report_date_str |-> "2023-09-14",
     date_time_obj |-> [y |-> 2023, m |-> 9, d |-> 15, hh |-> 20, mi |-> 20, ss |-> 0],
     amount |-> 5040, currency |-> "USD", type_code |-> "Dividends"]

TypeCodes == KnownTypeCodes \cup {"DIV", "WHTAX", "LIEU", ""}

RawTxs ==
    {[RawBase EXCEPT !.type_code = c] : c \in TypeCodes}
    \cup {[RawBase EXCEPT !.symbol = "BRK-B", !.type_code = "Withholding Tax",
                          !.amount = -756, !.description = "BRK-B US TAX"],
          [RawBase EXCEPT !.symbol = "SDIV", !.type_code = "Payment In Lieu Of Dividends",
                          !.currency = "EUR", !.report_date_str = "2023-09-15"]}

\* a table whose first value is the second row's key
ChainRows ==
    <<[namespace |-> Some("NYSE"), symbol |-> "BRK.B",
       ledger_symbol |-> Some("BRK-B"), ib_symbol |-> Some("BRK B")],
      [namespace |-> Some(""), symbol |-> "BRK.B",
       ledger_symbol |-> Some(""), ib_symbol |-> Some("BRK-B")]>>

NormFiles ==
    {MissingFile,
     [exists |-> TRUE, rows |-> <<>>],
     [exists |-> TRUE, rows |-> ChainRows],
     [exists |-> TRUE, rows |-> <<ChainRows[1]>>]}

\* transactions handed to the matcher
BrokerBase ==
    [date |-> D0915, report_date |-> "2023-09-14", symbol |-> "SDIV",
     type |-> "Dividend", amount |-> 5040, currency |-> "USD",
     description |-> "SDIV CASH DIVIDEND"]

BrokerTxs ==
    {BrokerBase,
     [BrokerBase EXCEPT !.date = D0914],
     [BrokerBase EXCEPT !.report_date = "20230914"],
     [BrokerBase EXCEPT !.type = "WhTax", !.amount = -756]}

LedgerBase ==
    [date |-> D0915, report_date |-> "2023-09-15", symbol |-> "SDIV",
     type |-> "Dividend", amount |-> -5040, currency |-> "USD", description |-> ""]

LedgerTxs ==
    {LedgerBase,
     [LedgerBase EXCEPT !.date = D0914, !.report_date = "2023-09-14"],
     [LedgerBase EXCEPT !.amount = 5040],
     [LedgerBase EXCEPT !.amount = -5041],
     [LedgerBase EXCEPT !.currency = "EUR"],
     [LedgerBase EXCEPT !.symbol = "VBAL"],
     [LedgerBase EXCEPT !.type = "WhTax"]}

\* ledger entries for the repeated call
PureLedgerTxs ==
    {LedgerBase,
     [LedgerBase EXCEPT !.date = D0914, !.report_date = "2023-09-14"],
     [LedgerBase EXCEPT !.type = "WhTax", !.amount = 756]}

(***************************************************************************)
(* The ledger query's output: one line per posting, in the columns of the  *)
(* register report's wide layout.                                          *)
(***************************************************************************)
RECURSIVE NatChars(_)
NatChars(n) == IF n < 10 THEN <<Digit[n + 1]>> ELSE Append(NatChars(n \div 10), Digit[(n % 10) + 1])

Blanks(n) == [k \in 1..n |-> " "]

ZeroPadChars(n, width) == [k \in 1..(width - Len(NatChars(n))) |-> "0"] \o NatChars(n)

DateChars(d) ==
    ZeroPadChars(d.y, 4) \o <<"-">> \o ZeroPadChars(d.m, 2) \o <<"-">> \o ZeroPadChars(d.d, 2)

\* an amount of whole hundredths, as the register prints it
AmountChars(a) ==
    (IF a < 0 THEN <<"-">> ELSE <<>>)
    \o NatChars(Abs(a) \div 1000) \o <<".">> \o ZeroPadChars((Abs(a) % 1000) \div 10, 2)

RenderRegisterLine(row) ==
    LET date == IF row.date = NoDate THEN Blanks(ColDateEnd) ELSE DateChars(row.date)
        amount == AmountChars(row.amount) \o <<" ">> \o row.commodity
        total == AmountChars(row.total) \o <<" ">> \o row.commodity
    IN date \o Blanks(ColPayee - ColDateEnd)
       \o row.payee \o Blanks(ColAccount - ColPayee - Len(row.payee))
       \o row.account \o Blanks(ColAmount - ColAccount - Len(row.account))
       \o Blanks(ColAmountEnd - 1 - ColAmount - Len(amount)) \o amount
       \o Blanks(ColAmountEnd - 1 - ColAmount - Len(total)) \o total

USD == <<"U", "S", "D">>
EUR == <<"E", "U", "R">>

RegisterRows ==
    {[date |-> D0914,
      payee |-> <<"B", "R", "K", "-", "B", " ", "D", "i", "v">>,
      account |-> <<"I", "n", "c", "o", "m", "e", ":", "I", "B">>,
      amount |-> -5040, commodity |-> USD, total |-> -5040],
     [date |-> D0915,
      payee |-> <<"B", "R", "K", "-", "B", " ", "D", "i", "v">>,
      account |-> <<"I", "n", "c", "o", "m", "e", ":", "I", "B">>,
      amount |-> -5040, commodity |-> EUR, total |-> -5040],
     [date |-> D0914,
      payee |-> <<"S", "D", "I", "V", " ", "D", "i", "v">>,
      account |-> <<"I", "n", "c", "o", "m", "e", ":", "I", "B">>,
      amount |-> -5040, commodity |-> EUR, total |-> -5040],
     [date |-> NoDate,
      payee |-> <<>>,
      account |-> <<"E", "x", "p", "e", "n", "s", "e", "s", ":", "I", "B">>,
      amount |-> 756, commodity |-> USD, total |-> -4284]}

\* a line of the wide layout from the text of its five columns
RenderLine(date, payee, account, amount, total) ==
    date \o Blanks(ColPayee - Len(date))
    \o payee \o Blanks(ColAccount - ColPayee - Len(payee))
    \o account \o Blanks(ColAmount - ColAccount - Len(account))
    \o Blanks(ColAmountEnd - 1 - ColAmount - Len(amount)) \o amount
    \o Blanks(ColAmountEnd - 1 - ColAmount - Len(total)) \o total

IncomeIB == <<"I", "n", "c", "o", "m", "e", ":", "I", "B">>

SdivDiv == <<"S", "D", "I", "V", " ", "D", "i", "v">>

\* header lines whose amount column holds three tokens, one token, nothing
MalformedAmountLines ==
    {RenderLine(DateChars(D0914), SdivDiv, IncomeIB,
                <<"1", " ", "0", "0", "0", ".", "0", "0", " ">> \o EUR,
                <<"1", ",", "0", "0", "0", ".", "0", "0", " ">> \o EUR),
     RenderLine(DateChars(D0914), SdivDiv, IncomeIB,
                <<"-", "5", ".", "0", "4">>, <<"-", "5", ".", "0", "4", " ">> \o EUR),
     RenderLine(DateChars(D0914), SdivDiv, IncomeIB,
                <<>>, <<"-", "5", ".", "0", "4", " ">> \o EUR)}

\* lines the clean-up meets besides postings: empty, blank, a short message,
\* and a posting whose account leaves column 50 blank
BlankLines == {<<>>, Blanks(3)}

ShortLines == {<<"W", "a", "r", "n", "i", "n", "g">>}

Column50BlankLines ==
    {RenderLine(DateChars(D0915), SdivDiv, <<"I", ":", "I", "B">>,
                <<"-", "5", ".", "0", "4", " ">> \o EUR,
                <<"-", "5", ".", "0", "4", " ">> \o EUR)}

ParserLines ==
    {RenderRegisterLine(r) : r \in RegisterRows}
    \cup MalformedAmountLines \cup BlankLines \cup ShortLines \cup Column50BlankLines

\* the record of a preceding header row
HeaderRecord ==
    [NoRow EXCEPT !.date = D0914, !.report_date = "2023-09-14",
                  !.payee = "Supermarket", !.account = "Expenses:Food",
                  !.amount = 15000, !.currency = "EUR"]

\* CashTransaction elements of the broker export
DateTimeAttrs ==
    {None, Some(<<>>),
     Some(<<"2", "0", "2", "3", "-", "0", "9", "-", "1", "5", ";", "2", "0", ":", "2", "0", ":", "0", "0">>),
     Some(<<"2", "0", "2", "3", "-", "0", "9", "-", "1", "4">>),
     Some(<<"2", "0", "2", "3", "0", "9", "1", "5">>),
     Some(<<"2", "0", "2", "3", "-", "0", "2", "-", "3", "0">>)}

AmountAttrs ==
    {None,
     Some(<<"5", ".", "0", "4">>),
     Some(<<"-", "7", ".", "5", "6">>),
     Some(<<"a", "b", "c">>),
     Some(<<"1", ",", "0", "0", "0", ".", "5", "0">>)}

XmlElems ==
    [dateTime : DateTimeAttrs, amount : AmountAttrs, symbol : {Some("SDIV")},
     description : {Some("SDIV CASH DIVIDEND")}, reportDate : {Some("2023-09-14")},
     currency : {Some("USD")}, type : {Some("Dividends")}]
    \cup {[dateTime |-> Some(<<"2", "0", "2", "3", "-", "9", "-", "5">>), amount |-> None, symbol |-> None,
           description |-> None, reportDate |-> None, currency |-> None,
           type |-> None]}

XmlDocs ==
    {[parses |-> FALSE, cash_transactions |-> None],
     [parses |-> TRUE, cash_transactions |-> None]}
    \cup {[parses |-> TRUE, cash_transactions |-> Some(e)] :
              e \in SeqsUpTo(XmlElems, MaxXmlElems)}

PipeRawTxs ==
    {RawBase,
     [RawBase EXCEPT !.currency = "EUR"],
     [RawBase EXCEPT !.symbol = "SDIV", !.type_code = "Payment In Lieu Of Dividends",
                     !.currency = "EUR"],
     [RawBase EXCEPT !.type_code = "Other Fees"]}

PipeFiles == {MissingFile, [exists |-> TRUE, rows |-> ChainRows]}

(***************************************************************************)
(* The run (main.py): compare_py and the functions it calls.  A call that  *)
(* raises returns [err, msg]: the exception's type and its message.  The   *)
(* report is [flex_report_path, flex_reports_dir, exists, is_dir,          *)
(* has_xml_files, content]: the two parameters, whether the file to load   *)
(* exists, whether the directory is one and holds *.xml files, and the     *)
(* document the file holds.                                                *)
(***************************************************************************)
TRANSACTION_DAYS == 60

\* the characters of the strings the run compares
Lexicon ==
    {<<>>, DateChars(D0914), DateChars(D0915),
     <<"2", "0", "2", "3", "0", "9", "1", "4">>,
     <<"D", "I", "V">>, <<"S", "D", "I", "V">>, <<"B", "R", "K", " ", "B">>, <<"B", "R", "K", "-", "B">>,
     <<"D", "i", "v", "i", "d", "e", "n", "d">>,
     <<"D", "i", "v", "i", "d", "e", "n", "d", "s">>,
     <<"W", "i", "t", "h", "h", "o", "l", "d", "i", "n", "g", " ", "T", "a", "x">>,
     <<"W", "h", "T", "a", "x">>,
     <<"P", "a", "y", "m", "e", "n", "t", "I", "n", "L", "i", "e", "u">>}

CharsOf(s) == CHOOSE cs \in Lexicon : Join(cs) = s

\* the characters of the lexicon in code point order
CodePoints ==
    <<" ", "-", "0", "1", "2", "3", "4", "5", "6", "7", "8", "9",
      "B", "D", "I", "K", "L", "P", "R", "S", "T", "V", "W",
      "a", "d", "e", "g", "h", "i", "l", "m", "n", "o", "s", "t", "u", "v", "x", "y">>

Ord(c) == CHOOSE k \in 1..Len(CodePoints) : CodePoints[k] = c

\* a < b on str: by the first differing character, a proper prefix first
RECURSIVE CharsLess(_, _)
CharsLess(a, b) ==
    IF b = <<>> THEN FALSE
    ELSE IF a = <<>> THEN TRUE
    ELSE IF Head(a) # Head(b) THEN Ord(Head(a)) < Ord(Head(b))
    ELSE CharsLess(Tail(a), Tail(b))

StrLess(a, b) == CharsLess(CharsOf(a), CharsOf(b))

\* a < b on tuples of integers
RECURSIVE IntsLess(_, _)
IntsLess(a, b) ==
    IF b = <<>> THEN FALSE
    ELSE IF a = <<>> THEN TRUE
    ELSE IF Head(a) # Head(b) THEN Head(a) < Head(b)
    ELSE IntsLess(Tail(a), Tail(b))

DateLess(a, b) == IntsLess(<<a.y, a.m, a.d>>, <<b.y, b.m, b.d>>)

DateTimeLess(a, b) ==
    IntsLess(<<a.y, a.m, a.d, a.hh, a.mi, a.ss>>, <<b.y, b.m, b.d, b.hh, b.mi, b.ss>>)

\* list.sort(key=...): stable, ascending; below[i, j] is key(list[i]) < key(list[j])
\* the same with records of equal key in reverse order
SortBy_TiesReversed(list, below) ==
    LET n == Len(list)
        Pos(i) == 1 + Cardinality({j \in 1..n : below[j, i]})
                    + Cardinality({j \in (i + 1)..n : ~below[j, i] /\ ~below[i, j]})
    IN [p \in 1..n |-> list[CHOOSE i \in 1..n : Pos(i) = p]]

SortBy(list, below) ==
    LET n == Len(list)
        Pos(i) == 1 + Cardinality({j \in 1..n : below[j, i]})
                    + Cardinality({j \in 1..(i - 1) : ~below[j, i] /\ ~below[i, j]})
    IN [p \in 1..n |-> list[CHOOSE i \in 1..n : Pos(i) = p]]

\* the last day of the month before d's
EndOfPreviousMonth(d) ==
    IF d.m > 1 THEN [d EXCEPT !.m = d.m - 1, !.d = DaysInMonth(d.y, d.m - 1)]
    ELSE [y |-> d.y - 1, m |-> 12, d |-> 31]

\* d - timedelta(days=n)
RECURSIVE DaysBefore(_, _)
DaysBefore(d, n) ==
    IF n < d.d THEN [d EXCEPT !.d = d.d - n]
    ELSE DaysBefore(EndOfPreviousMonth(d), n - d.d)

\* main.py's own get_ledger_start_date_py; today is date.today()
main_get_ledger_start_date_py(days_ago, today) ==
    LET num_days == IF days_ago # None THEN days_ago[1] ELSE TRANSACTION_DAYS
    IN strftime_iso(DaysBefore(today, num_days))

\* main.py's get_ledger_tx_py is a stub: it logs and returns no transaction
main_get_ledger_tx_py ==
    IF main_logging.err # ""
    THEN [err |-> main_logging.err, msg |-> "name 'logging' is not defined", val |-> <<>>]
    ELSE [err |-> "", msg |-> "", val |-> <<>>]

NoDoc == [parses |-> FALSE, cash_transactions |-> None]

\* load_report_content_py from the existence test of line 114, file_path_to_load
\* being the outcome of choosing the file
load_report_content_py_read(flex_report, file_path_to_load) ==
    IF file_path_to_load.err # "" THEN file_path_to_load
    ELSE IF ~flex_report.exists
    THEN [err |-> "FileNotFoundError",
          msg |-> "Report file not found: " \o flex_report.name, val |-> NoDoc]
    ELSE IF main_logging.err # ""
    THEN [err |-> main_logging.err, msg |-> "name 'logging' is not defined", val |-> NoDoc]
    ELSE [err |-> "", msg |-> "", val |-> flex_report.content]

load_report_content_py(flex_report) ==
    LET Raise(e, m) == [err |-> e, msg |-> m, val |-> NoDoc]
        Given(opt) == opt # None /\ opt # Some("")
    IN load_report_content_py_read(flex_report,
           IF Given(flex_report.flex_report_path) THEN Raise("", "")
           ELSE IF Given(flex_report.flex_reports_dir)
           THEN IF flex_report.is_dir
                THEN IF flex_report.has_xml_files
                     THEN Raise(main_logging.err,
                                IF main_logging.err # ""
                                THEN "name 'logging' is not defined" ELSE "")
                     ELSE Raise("FileNotFoundError",
                                "No XML reports found in " \o flex_report.flex_reports_dir[1])
                ELSE Raise("NotADirectoryError",
                           "flex_reports_dir is not a directory: "
                               \o flex_report.flex_reports_dir[1])
           ELSE Raise("ValueError",
                      "Either flex_report_path or flex_reports_dir must be provided"))

\* main.py imports CommonTransaction, CompareParams, IbCashTransaction and
\* SymbolMetadata from model, and not the FlexQueryResponse it calls
main_FlexQueryResponse == [err |-> "NameError"]

RawLess(a, b) ==
    \/ DateTimeLess(a.date_time_obj, b.date_time_obj)
    \/ /\ a.date_time_obj = b.date_time_obj
       /\ \/ StrLess(a.symbol, b.symbol)
          \/ a.symbol = b.symbol /\ StrLess(a.type_code, b.type_code)

\* read_flex_report_py from line 293, response being what from_xml_content returned
read_flex_report_py_sort(response) ==
    IF response.err # "" THEN [err |-> response.err, msg |-> "", val |-> <<>>]
    ELSE [err |-> "", msg |-> "",
          val |-> SortBy(response.val, [i, j \in 1..Len(response.val) |->
                                           RawLess(response.val[i], response.val[j])])]

\* read_flex_report_py from line 287, xml_content being the report's content
read_flex_report_py_parse(xml_content) ==
    IF xml_content.err # ""
    THEN [err |-> xml_content.err, msg |-> xml_content.msg, val |-> <<>>]
    ELSE IF main_FlexQueryResponse.err # ""
    THEN [err |-> main_FlexQueryResponse.err,
          msg |-> "name 'FlexQueryResponse' is not defined", val |-> <<>>]
    ELSE read_flex_report_py_sort(from_xml_content(xml_content.val))

read_flex_report_py(flex_report) ==
    read_flex_report_py_parse(load_report_content_py(flex_report))

\* the outcome of convert_ib_txs_into_common_py, with the exception's message
WithMessage(converted) ==
    [err |-> converted.err,
     msg |-> IF converted.err = "NameError" THEN "name 'logging' is not defined" ELSE "",
     val |-> converted.val]

\* get_ib_tx_py from line 302, raw_ib_txs being what read_flex_report_py returned
get_ib_tx_py_convert(raw_ib_txs, symbols_path) ==
    IF raw_ib_txs.err # "" THEN raw_ib_txs
    ELSE WithMessage(convert_ib_txs_into_common_py(raw_ib_txs.val, symbols_path))

get_ib_tx_py(flex_report, symbols_path) ==
    get_ib_tx_py_convert(read_flex_report_py(flex_report), symbols_path)

\* min(ib_common_txs, key=...): the first transaction no other's key is below
oldest_tx(list, flag) ==
    LET key(i) == get_comparison_date_py(list[i], flag)
    IN list[CHOOSE i \in 1..Len(list) :
                /\ \A j \in 1..Len(list) : ~StrLess(key(j), key(i))
                /\ \A j \in 1..(i - 1) : StrLess(key(i), key(j))]

get_oldest_ib_date_py(list, flag, today) ==
    IF list = <<>>
    THEN [err |-> "", msg |-> "", val |-> main_get_ledger_start_date_py(None, today)]
    ELSE LET oldest == oldest_tx(list, flag)
         IN IF main_logging.err # ""
            THEN [err |-> main_logging.err, msg |-> "name 'logging' is not defined",
                  val |-> ""]
            ELSE [err |-> "", msg |-> "", val |-> get_comparison_date_py(oldest, flag)]

CommonLess(a, b) ==
    \/ StrLess(a.report_date, b.report_date)
    \/ /\ a.report_date = b.report_date
       /\ \/ DateLess(a.date, b.date)
          \/ /\ a.date = b.date
             /\ \/ StrLess(a.symbol, b.symbol)
                \/ a.symbol = b.symbol /\ StrLess(a.type, b.type)

NoStartDate == [err |-> "", msg |-> "", val |-> ""]

\* the except clauses of compare_py
Caught(e) ==
    IF e.err = "FileNotFoundError" THEN "Error: File not found - " \o e.msg \o "\n"
    ELSE IF e.err = "ValueError" THEN "Error: Invalid value - " \o e.msg \o "\n"
    ELSE "Error: An unexpected error occurred - " \o e.msg \o "\n"

\* compare_py from line 415, the start date having been computed
compare_py_query(sorted, start, ledger, effective_dates) ==
    IF start.err # "" THEN [start |-> start, result |-> Caught(start)]
    ELSE IF ledger.err # "" THEN [start |-> start, result |-> Caught(ledger)]
    ELSE [start |-> start, result |-> compare_txs_py(sorted, ledger.val, effective_dates)]

\* compare_py from line 410, the broker transactions having been sorted
compare_py_sorted(sorted, effective_dates, today) ==
    compare_py_query(sorted, get_oldest_ib_date_py(sorted, effective_dates, today),
                     main_get_ledger_tx_py, effective_dates)

\* compare_py from line 391, ib being what get_ib_tx_py returned
compare_py_ib(ib, effective_dates, today) ==
    IF ib.err # "" THEN [start |-> NoStartDate, result |-> Caught(ib)]
    ELSE IF ib.val = <<>>
    THEN [start |-> NoStartDate,
          result |-> "No new IB transactions found to process. Exiting...\n"]
    ELSE compare_py_sorted(SortBy(ib.val, [i, j \in 1..Len(ib.val) |->
                                              CommonLess(ib.val[i], ib.val[j])]),
                           effective_dates, today)

\* compare_py: the string it returns, and the start date it computed, if any
compare_py(flex_report, symbols_path, effective_dates, today) ==
    compare_py_ib(get_ib_tx_py(flex_report, symbols_path), effective_dates, today)

\* the reports and the days of the run
RunDoc ==
    [parses |-> TRUE,
     cash_transactions |->
         Some(<<[dateTime |-> Some(<<"2", "0", "2", "3", "-", "0", "9", "-", "1", "5">>),
                 amount |-> Some(<<"5", ".", "0", "4">>), symbol |-> Some("SDIV"),
                 description |-> Some("SDIV CASH DIVIDEND"),
                 reportDate |-> Some("2023-09-14"), currency |-> Some("USD"),
                 type |-> Some("DIV")]>>)]

FlexReports ==
    [flex_report_path : {None, Some(""), Some("report.xml")},
     flex_reports_dir : {None, Some("reports")},
     name : {"report.xml"},
     exists : BOOLEAN,
     is_dir : BOOLEAN,
     has_xml_files : BOOLEAN,
     content : {NoDoc, RunDoc}]

NoReport ==
    [flex_report_path |-> None, flex_reports_dir |-> None, name |-> "",
     exists |-> FALSE, is_dir |-> FALSE, has_xml_files |-> FALSE, content |-> NoDoc]

Todays ==
    {[y |-> 2023, m |-> 9, d |-> 20], [y |-> 2024, m |-> 3, d |-> 1],
     [y |-> 2023, m |-> 1, d |-> 10]}

(***************************************************************************)
(* Report file selection (src/flex_reader.py).  The directory is the       *)
(* sequence of its files in the order glob lists them, each [name, ctime,  *)
(* matches]: its path, its os.path.getctime and whether the pattern        *)
(* matches it.                                                             *)
(***************************************************************************)
\* glob.glob(file_pattern)
glob(dir) == SelectSeq(dir, LAMBDA f : f.matches)

\* max(files, key=os.path.getctime): the first file none is later than
get_latest_filename_Oldest(dir) ==
    LET matching == glob(dir)
    IN IF matching = <<>> THEN [err |-> "FileNotFoundError", val |-> ""]
       ELSE [err |-> "",
             val |-> matching[CHOOSE i \in 1..Len(matching) :
                         /\ \A j \in 1..Len(matching) : matching[j].ctime >= matching[i].ctime
                         /\ \A j \in 1..(i - 1) : matching[j].ctime > matching[i].ctime].name]

get_latest_filename(dir) ==
    LET matching == glob(dir)
    IN IF matching = <<>> THEN [err |-> "FileNotFoundError", val |-> ""]
       ELSE [err |-> "",
             val |-> matching[CHOOSE i \in 1..Len(matching) :
                         /\ \A j \in 1..Len(matching) : matching[j].ctime <= matching[i].ctime
                         /\ \A j \in 1..(i - 1) : matching[j].ctime < matching[i].ctime].name]

\* the directories: up to MaxFiles files of different names
FileNames == {"report" \o NatStr(k) : k \in 1..MaxFiles}

CTimes == {1, 2, 3}

Directories ==
    {d \in SeqsUpTo([name : FileNames, ctime : CTimes, matches : BOOLEAN], MaxFiles) :
         \A i, j \in 1..Len(d) : i # j => d[i].name # d[j].name}

(***************************************************************************)
(* The reader of the export (src/src/flex_reader.py load_report and        *)
(* src/src/ibflex_reader.py read_flex_report).  The file opened holds doc. *)
(***************************************************************************)
\* load_report from line 33, report_path being the path chosen
load_report_open(report_path, exists, doc) ==
    IF report_path.err # "" THEN [err |-> report_path.err, val |-> NoDoc]
    ELSE IF ~exists THEN [err |-> "FileNotFoundError", val |-> NoDoc]
    ELSE [err |-> "", val |-> doc]

load_report(flex_report, dir, doc) ==
    LET Given(opt) == opt # None /\ opt # Some("")
    IN IF Given(flex_report.flex_report_path)
       THEN load_report_open([err |-> "", val |-> flex_report.flex_report_path[1]],
                             flex_report.exists, doc)
       ELSE IF Given(flex_report.flex_reports_dir)
       THEN load_report_open(get_latest_filename(dir), TRUE, doc)
       ELSE load_report_open([err |-> "ValueError", val |-> ""], FALSE, doc)

\* read_flex_report from line 40, response being what from_xml_content returned
read_flex_report_sort(response) ==
    IF response.err # "" THEN [err |-> response.err, val |-> <<>>, extracted |-> <<>>]
    ELSE [err |-> "", extracted |-> response.val,
          val |-> SortBy(response.val, [i, j \in 1..Len(response.val) |->
                                           RawLess(response.val[i], response.val[j])])]

\* read_flex_report from line 37, xml_content being what load_report returned
read_flex_report_parse(xml_content) ==
    IF xml_content.err # ""
    THEN [err |-> xml_content.err, val |-> <<>>, extracted |-> <<>>]
    ELSE read_flex_report_sort(from_xml_content(xml_content.val))

\* read_flex_report: the list it returns, and the list extracted before the sort
read_flex_report(flex_report, dir, doc) ==
    read_flex_report_parse(load_report(flex_report, dir, doc))

\* the exports read: elements that differ in each component of the key,
\* two of equal key, and one whose date does not parse
ReadElems ==
    [dateTime : {Some(<<"2", "0", "2", "3", "-", "0", "9", "-", "1", "5", ";", "2", "0", ":", "2", "0", ":", "0", "0">>),
                 Some(<<"2", "0", "2", "3", "-", "0", "9", "-", "1", "4">>)},
     amount : {Some(<<"5", ".", "0", "4">>)},
     symbol : {Some("SDIV"), Some("BRK B")},
     description : {Some("CASH DIVIDEND")}, reportDate : {Some("2023-09-14")},
     currency : {Some("USD")}, type : {Some("Dividends"), Some("Withholding Tax")}]
    \cup {[dateTime |-> Some(<<"2", "0", "2", "3", "-", "0", "9", "-", "1", "4">>),
           amount |-> Some(<<"-", "7", ".", "5", "6">>), symbol |-> Some("SDIV"),
           description |-> Some("CASH DIVIDEND"), reportDate |-> Some("2023-09-14"),
           currency |-> Some("USD"), type |-> Some("Dividends")],
          [dateTime |-> Some(<<"2", "0", "2", "3", "-", "0", "2", "-", "3", "0">>),
           amount |-> Some(<<"5", ".", "0", "4">>), symbol |-> Some("SDIV"),
           description |-> Some("CASH DIVIDEND"), reportDate |-> Some("2023-09-14"),
           currency |-> Some("USD"), type |-> Some("Dividends")]}

ReadDocs ==
    {[parses |-> TRUE, cash_transactions |-> None]}
    \cup {[parses |-> TRUE, cash_transactions |-> Some(e)] :
              e \in SeqsUpTo(ReadElems, MaxXmlElems)}

ReadParams ==
    [flex_report_path : {None, Some(""), Some("report.xml")},
     flex_reports_dir : {None, Some("reports")},
     name : {"report.xml"}, exists : BOOLEAN, is_dir : {TRUE},
     has_xml_files : {TRUE}, content : {NoDoc}]

ReadDirectories ==
    {<<>>, <<[name |-> "report1", ctime |-> 1, matches |-> TRUE]>>}

(***************************************************************************)
(* Operations.                                                             *)
(***************************************************************************)
\* map_symbols applied to row i of the table
MapSymbols(i) ==
    /\ pc = "symbols"
    /\ i \in 1..Len(symbols_file.rows)
    /\ meta' = symbols_file.rows[i]
    /\ mapped' = map_symbols(symbols_file.rows[i])
    /\ UNCHANGED <<pc, symbols_file, securities_map, ib_tx_list, common_txs,
                   common_txs_py, ib_common_txs, ledger_common_txs,
                   use_effective_date, result_output_lines, new_ix, report,
                   register_rows, ledger_output>>
    /\ UNCHANGED ext_vars

LoadSymbols ==
    /\ pc = "symbols"
    /\ securities_map' = load_symbols(symbols_file)
    /\ pc' = "loaded"
    /\ UNCHANGED <<symbols_file, meta, mapped, ib_tx_list, common_txs,
                   common_txs_py, ib_common_txs, ledger_common_txs,
                   use_effective_date, result_output_lines, new_ix, report,
                   register_rows, ledger_output>>
    /\ UNCHANGED ext_vars

\* the table convert_ib_txs_into_common works with
SymbolsMapOf(file) ==
    LET loaded == load_symbols(file)
    IN IF loaded.err = "FileNotFoundError" THEN [err |-> "", map |-> EmptyMap] ELSE loaded

ConvertIbTxs ==
    /\ pc = "raw"
    /\ common_txs' = convert_ib_txs_into_common(ib_tx_list, symbols_file)
    /\ securities_map' = SymbolsMapOf(symbols_file)
    /\ pc' = "converted"
    /\ UNCHANGED <<symbols_file, meta, mapped, ib_tx_list, common_txs_py,
                   ib_common_txs, ledger_common_txs, use_effective_date,
                   result_output_lines, new_ix, report, register_rows,
                   ledger_output>>
    /\ UNCHANGED ext_vars

ConvertIbTxsPy ==
    /\ pc = "raw"
    /\ common_txs_py' = convert_ib_txs_into_common_py(ib_tx_list, symbols_file)
    /\ pc' = "converted_py"
    /\ UNCHANGED <<symbols_file, meta, mapped, securities_map, ib_tx_list,
                   common_txs, ib_common_txs, ledger_common_txs,
                   use_effective_date, result_output_lines, new_ix, report,
                   register_rows, ledger_output>>
    /\ UNCHANGED ext_vars

CompareTxs ==
    /\ pc = "ledger"
    /\ LET new == compare_txs_new(ib_common_txs, ledger_common_txs, use_effective_date)
       IN /\ result_output_lines' = Lines(new)
          /\ new_ix' = [k \in 1..Len(new) |-> new[k].ix]
    /\ report' = compare_txs_py(ib_common_txs, ledger_common_txs, use_effective_date)
    /\ pc' = "compared"
    /\ UNCHANGED <<symbols_file, meta, mapped, securities_map, ib_tx_list,
                   common_txs, common_txs_py, ib_common_txs, ledger_common_txs,
                   use_effective_date, register_rows, ledger_output>>
    /\ UNCHANGED ext_vars

\* the run's first step: the broker records are normalized; an exception ends the run
GetIbTx ==
    /\ pc = "start"
    /\ LET r == convert_ib_txs_into_common(ib_tx_list, symbols_file)
       IN /\ common_txs' = r
          /\ ib_common_txs' = r.val
          /\ pc' = IF r.err # "" THEN "error" ELSE "ib"
    /\ securities_map' = SymbolsMapOf(symbols_file)
    /\ UNCHANGED <<symbols_file, meta, mapped, ib_tx_list, common_txs_py,
                   ledger_common_txs, use_effective_date, result_output_lines,
                   new_ix, report, register_rows, ledger_output>>
    /\ UNCHANGED ext_vars

\* the run's second step: the ledger query's lines are cleaned and parsed
GetLedgerTx ==
    /\ pc = "ib"
    /\ cleaned_lines' = clean_up_register_output(ledger_output)
    /\ IF cleaned_lines'.err # ""
       THEN /\ pc' = "error"
            /\ UNCHANGED ledger_common_txs
       ELSE /\ pc' = "ledger"
            /\ ledger_common_txs' = get_rows_from_register(cleaned_lines'.val)
    /\ UNCHANGED <<symbols_file, meta, mapped, securities_map, ib_tx_list,
                   common_txs, common_txs_py, ib_common_txs, use_effective_date,
                   result_output_lines, new_ix, report, register_rows,
                   ledger_output>>
    /\ UNCHANGED <<row_line, row_header, row_result>>
    /\ UNCHANGED ext_but_parser

CleanUp ==
    /\ pc = "lines"
    /\ cleaned_lines' = clean_up_register_output(ledger_output)
    /\ pc' = "cleaned"
    /\ UNCHANGED <<symbols_file, meta, mapped, securities_map, ib_tx_list,
                   common_txs, common_txs_py, ib_common_txs, ledger_common_txs,
                   use_effective_date, result_output_lines, new_ix, report,
                   register_rows, ledger_output>>
    /\ UNCHANGED <<row_line, row_header, row_result>>
    /\ UNCHANGED ext_but_parser

GetRows ==
    /\ pc = "cleaned"
    /\ cleaned_lines.err = ""
    /\ ledger_common_txs' = get_rows_from_register(cleaned_lines.val)
    /\ pc' = "rows"
    /\ UNCHANGED <<symbols_file, meta, mapped, securities_map, ib_tx_list,
                   common_txs, common_txs_py, ib_common_txs,
                   use_effective_date, result_output_lines, new_ix, report,
                   register_rows, ledger_output>>
    /\ UNCHANGED parser_vars
    /\ UNCHANGED ext_but_parser

\* get_row_from_register_line applied to line i: of the query's output before
\* the clean-up, of the retained lines after it
ParseRow(i, header) ==
    /\ pc \in {"lines", "cleaned"}
    /\ LET source == IF pc = "lines" THEN ledger_output ELSE cleaned_lines.val
       IN /\ i \in 1..Len(source)
          /\ row_line' = source[i]
          /\ row_header' = header
          /\ row_result' = get_row_from_register_line(source[i], header)
    /\ UNCHANGED <<pc, symbols_file, meta, mapped, securities_map, ib_tx_list,
                   common_txs, common_txs_py, ib_common_txs, ledger_common_txs,
                   use_effective_date, result_output_lines, new_ix, report,
                   register_rows, ledger_output>>
    /\ UNCHANGED cleaned_lines
    /\ UNCHANGED ext_but_parser

ParseXml ==
    /\ pc = "xml"
    /\ parsed_cash_txs' = from_xml_content(xml_doc)
    /\ pc' = "parsed"
    /\ UNCHANGED <<symbols_file, meta, mapped, securities_map, ib_tx_list,
                   common_txs, common_txs_py, ib_common_txs, ledger_common_txs,
                   use_effective_date, result_output_lines, new_ix, report,
                   register_rows, ledger_output>>
    /\ UNCHANGED xml_doc
    /\ UNCHANGED ext_but_xml

\* read_flex_report, from the parameters to the list it returns
ReadFlexReport ==
    /\ pc = "export"
    /\ LET r == read_flex_report(params, files, xml_doc)
       IN /\ ib_tx_list' = r.val
          /\ parsed_cash_txs' = [err |-> r.err, val |-> r.extracted]
          /\ pc' = IF r.err # "" THEN "read_failed" ELSE "read"
    /\ UNCHANGED <<symbols_file, meta, mapped, securities_map,
                   common_txs, common_txs_py, ib_common_txs, ledger_common_txs,
                   use_effective_date, result_output_lines, new_ix, report,
                   register_rows, ledger_output>>
    /\ UNCHANGED <<xml_doc, files, latest_file>>
    /\ UNCHANGED <<parser_vars, run_vars, again_vars, types_vars>>

\* both type translators applied to each of the codes
TranslateTypes ==
    /\ pc = "codes"
    /\ kinds' = [k \in 1..Len(type_codes) |->
                     [cash_action |-> cash_action(type_codes[k]),
                      get_cash_action_string |-> get_cash_action_string(type_codes[k])]]
    /\ pc' = "translated"
    /\ UNCHANGED <<symbols_file, meta, mapped, securities_map, ib_tx_list,
                   common_txs, common_txs_py, ib_common_txs, ledger_common_txs,
                   use_effective_date, result_output_lines, new_ix, report,
                   register_rows, ledger_output>>
    /\ UNCHANGED type_codes
    /\ UNCHANGED ext_but_types

\* the parser has not been applied
ParserIdle ==
    /\ cleaned_lines = [err |-> "", val |-> <<>>]
    /\ row_line = <<>>
    /\ row_header = <<>>
    /\ row_result = [err |-> "", val |-> NoRow]

XmlIdle ==
    /\ xml_doc = [parses |-> FALSE, cash_transactions |-> None]
    /\ parsed_cash_txs = [err |-> "", val |-> <<>>]

RunIdle ==
    /\ params = NoReport
    /\ start_date_for_ledger = NoStartDate
    /\ comparison_result = ""

AgainIdle ==
    /\ report_again = ""
    /\ securities_map_again = [err |-> "", map |-> EmptyMap]

FilesIdle ==
    /\ files = <<>>
    /\ latest_file = [err |-> "", val |-> ""]

TypesIdle ==
    /\ type_codes = <<>>
    /\ kinds = <<>>

InitExt == ParserIdle /\ XmlIdle /\ RunIdle /\ AgainIdle /\ FilesIdle /\ TypesIdle

\* compare_py, from its parameters to the string it returns
ComparePy ==
    /\ pc = "params"
    /\ \E today \in Todays :
           LET r == compare_py(params, symbols_file, use_effective_date, today)
           IN /\ start_date_for_ledger' = r.start
              /\ comparison_result' = r.result
    /\ pc' = "returned"
    /\ UNCHANGED <<symbols_file, meta, mapped, securities_map, ib_tx_list,
                   common_txs, common_txs_py, ib_common_txs, ledger_common_txs,
                   use_effective_date, result_output_lines, new_ix, report,
                   register_rows, ledger_output>>
    /\ UNCHANGED params
    /\ UNCHANGED ext_but_run

\* get_oldest_ib_date_py on the broker transactions
GetOldestIbDate ==
    /\ pc = "params"
    /\ \E today \in Todays :
           start_date_for_ledger' =
               get_oldest_ib_date_py(ib_common_txs, use_effective_date, today)
    /\ pc' = "oldest"
    /\ UNCHANGED <<symbols_file, meta, mapped, securities_map, ib_tx_list,
                   common_txs, common_txs_py, ib_common_txs, ledger_common_txs,
                   use_effective_date, result_output_lines, new_ix, report,
                   register_rows, ledger_output>>
    /\ UNCHANGED <<params, comparison_result>>
    /\ UNCHANGED ext_but_run

\* a second call of compare_txs_py with the arguments the first one was given
CompareTxsAgain_LedgerConsumed ==
    /\ pc = "compared"
    /\ report_again' = compare_txs_py(ib_common_txs, <<>>, use_effective_date)
    /\ ledger_common_txs' = <<>>
    /\ pc' = "compared_again"
    /\ UNCHANGED <<symbols_file, meta, mapped, securities_map, ib_tx_list,
                   common_txs, common_txs_py, ib_common_txs,
                   use_effective_date, result_output_lines, new_ix, report,
                   register_rows, ledger_output>>
    /\ UNCHANGED securities_map_again
    /\ UNCHANGED ext_but_again

CompareTxsAgain ==
    /\ pc = "compared"
    /\ report_again' = compare_txs_py(ib_common_txs, ledger_common_txs, use_effective_date)
    /\ pc' = "compared_again"
    /\ UNCHANGED <<symbols_file, meta, mapped, securities_map, ib_tx_list,
                   common_txs, common_txs_py, ib_common_txs, ledger_common_txs,
                   use_effective_date, result_output_lines, new_ix, report,
                   register_rows, ledger_output>>
    /\ UNCHANGED securities_map_again
    /\ UNCHANGED ext_but_again

\* a second load_symbols of the same table
LoadSymbolsAgain_ReaderExhausted ==
    /\ pc = "loaded"
    /\ securities_map_again' = load_symbols([symbols_file EXCEPT !.rows = <<>>])
    /\ pc' = "loaded_again"
    /\ UNCHANGED <<symbols_file, meta, mapped, securities_map, ib_tx_list,
                   common_txs, common_txs_py, ib_common_txs, ledger_common_txs,
                   use_effective_date, result_output_lines, new_ix, report,
                   register_rows, ledger_output>>
    /\ UNCHANGED report_again
    /\ UNCHANGED ext_but_again

LoadSymbolsAgain ==
    /\ pc = "loaded"
    /\ securities_map_again' = load_symbols(symbols_file)
    /\ pc' = "loaded_again"
    /\ UNCHANGED <<symbols_file, meta, mapped, securities_map, ib_tx_list,
                   common_txs, common_txs_py, ib_common_txs, ledger_common_txs,
                   use_effective_date, result_output_lines, new_ix, report,
                   register_rows, ledger_output>>
    /\ UNCHANGED report_again
    /\ UNCHANGED ext_but_again

GetLatestFilename ==
    /\ pc = "files"
    /\ latest_file' = get_latest_filename(files)
    /\ pc' = "latest"
    /\ UNCHANGED <<symbols_file, meta, mapped, securities_map, ib_tx_list,
                   common_txs, common_txs_py, ib_common_txs, ledger_common_txs,
                   use_effective_date, result_output_lines, new_ix, report,
                   register_rows, ledger_output>>
    /\ UNCHANGED files
    /\ UNCHANGED ext_but_files

(***************************************************************************)
(* Specifications.                                                         *)
(***************************************************************************)
\* the whole run: normalize, parse the ledger query's output, match
Init ==
    /\ pc = "start"
    /\ symbols_file \in PipeFiles
    /\ ib_tx_list \in SeqsUpTo(PipeRawTxs, MaxRawTxs)
    /\ register_rows \in SeqsUpTo(RegisterRows, MaxRegisterRows)
    /\ ledger_output = [k \in 1..Len(register_rows) |-> RenderRegisterLine(register_rows[k])]
    /\ use_effective_date \in BOOLEAN
    /\ meta = NoMeta
    /\ mapped = NoPair
    /\ securities_map = [err |-> "", map |-> EmptyMap]
    /\ common_txs = [err |-> "", val |-> <<>>]
    /\ common_txs_py = [err |-> "", val |-> <<>>]
    /\ ib_common_txs = <<>>
    /\ ledger_common_txs = <<>>
    /\ result_output_lines = <<>>
    /\ new_ix = <<>>
    /\ report = ""
    /\ InitExt

Next == GetIbTx \/ GetLedgerTx \/ CompareTxs

Spec == Init /\ [][Next]_vars

\* the matcher on its own
InitMatch ==
    /\ pc = "ledger"
    /\ ib_common_txs \in SeqsUpTo(BrokerTxs, MaxIbTxs)
    /\ ledger_common_txs \in SeqsUpTo(LedgerTxs, MaxLedgerTxs)
    /\ use_effective_date \in BOOLEAN
    /\ symbols_file = MissingFile
    /\ meta = NoMeta
    /\ mapped = NoPair
    /\ securities_map = [err |-> "", map |-> EmptyMap]
    /\ ib_tx_list = <<>>
    /\ common_txs = [err |-> "", val |-> <<>>]
    /\ common_txs_py = [err |-> "", val |-> <<>>]
    /\ result_output_lines = <<>>
    /\ new_ix = <<>>
    /\ report = ""
    /\ register_rows = <<>>
    /\ ledger_output = <<>>
    /\ InitExt

NextMatch == CompareTxs

SpecMatch == InitMatch /\ [][NextMatch]_vars

\* the normalizer on its own
InitNorm ==
    /\ pc = "raw"
    /\ symbols_file \in NormFiles
    /\ ib_tx_list \in SeqsUpTo(RawTxs, MaxRawTxs)
    /\ meta = NoMeta
    /\ mapped = NoPair
    /\ securities_map = [err |-> "", map |-> EmptyMap]
    /\ common_txs = [err |-> "", val |-> <<>>]
    /\ common_txs_py = [err |-> "", val |-> <<>>]
    /\ ib_common_txs = <<>>
    /\ ledger_common_txs = <<>>
    /\ use_effective_date = FALSE
    /\ result_output_lines = <<>>
    /\ new_ix = <<>>
    /\ report = ""
    /\ register_rows = <<>>
    /\ ledger_output = <<>>
    /\ InitExt

NextNorm == ConvertIbTxs \/ ConvertIbTxsPy

SpecNorm == InitNorm /\ [][NextNorm]_vars

\* the symbol resolver on its own
InitSymbols ==
    /\ pc = "symbols"
    /\ symbols_file \in SymbolFiles
    /\ meta = NoMeta
    /\ mapped = NoPair
    /\ securities_map = [err |-> "", map |-> EmptyMap]
    /\ ib_tx_list = <<>>
    /\ common_txs = [err |-> "", val |-> <<>>]
    /\ common_txs_py = [err |-> "", val |-> <<>>]
    /\ ib_common_txs = <<>>
    /\ ledger_common_txs = <<>>
    /\ use_effective_date = FALSE
    /\ result_output_lines = <<>>
    /\ new_ix = <<>>
    /\ report = ""
    /\ register_rows = <<>>
    /\ ledger_output = <<>>
    /\ InitExt

NextSymbols ==
    \/ \E i \in 1..MaxSymbolRows : MapSymbols(i)
    \/ LoadSymbols
    \/ LoadSymbolsAgain

SpecSymbols == InitSymbols /\ [][NextSymbols]_vars

\* the base variables of a specification that does not use them
BaseIdle ==
    /\ symbols_file = MissingFile
    /\ meta = NoMeta
    /\ mapped = NoPair
    /\ securities_map = [err |-> "", map |-> EmptyMap]
    /\ ib_tx_list = <<>>
    /\ common_txs = [err |-> "", val |-> <<>>]
    /\ common_txs_py = [err |-> "", val |-> <<>>]
    /\ ib_common_txs = <<>>
    /\ ledger_common_txs = <<>>
    /\ use_effective_date = FALSE
    /\ result_output_lines = <<>>
    /\ new_ix = <<>>
    /\ report = ""
    /\ register_rows = <<>>

\* the register parser on its own
InitParser ==
    /\ pc = "lines"
    /\ ledger_output \in SeqsUpTo(ParserLines, MaxRegisterRows)
    /\ BaseIdle
    /\ ParserIdle /\ XmlIdle /\ RunIdle /\ AgainIdle /\ TypesIdle /\ FilesIdle

NextParser ==
    \/ CleanUp
    \/ GetRows
    \/ \E i \in 1..MaxRegisterRows, header \in {<<>>, <<HeaderRecord>>} : ParseRow(i, header)

SpecParser == InitParser /\ [][NextParser]_vars

\* the reader of the broker export on its own
InitXml ==
    /\ pc = "xml"
    /\ xml_doc \in XmlDocs
    /\ parsed_cash_txs = [err |-> "", val |-> <<>>]
    /\ ledger_output = <<>>
    /\ BaseIdle
    /\ ParserIdle /\ RunIdle /\ AgainIdle /\ TypesIdle /\ FilesIdle

NextXml == ParseXml

SpecXml == InitXml /\ [][NextXml]_vars

\* the run on its own
InitRun ==
    /\ pc = "params"
    /\ params \in FlexReports
    /\ symbols_file \in {MissingFile, [exists |-> TRUE, rows |-> <<>>]}
    /\ ib_common_txs \in SeqsUpTo(BrokerTxs, MaxIbTxs)
    /\ use_effective_date \in BOOLEAN
    /\ start_date_for_ledger = NoStartDate
    /\ comparison_result = ""
    /\ meta = NoMeta
    /\ mapped = NoPair
    /\ securities_map = [err |-> "", map |-> EmptyMap]
    /\ ib_tx_list = <<>>
    /\ common_txs = [err |-> "", val |-> <<>>]
    /\ common_txs_py = [err |-> "", val |-> <<>>]
    /\ ledger_common_txs = <<>>
    /\ result_output_lines = <<>>
    /\ new_ix = <<>>
    /\ report = ""
    /\ register_rows = <<>>
    /\ ledger_output = <<>>
    /\ ParserIdle /\ XmlIdle /\ AgainIdle /\ TypesIdle /\ FilesIdle

NextRun == ComparePy \/ GetOldestIbDate

SpecRun == InitRun /\ [][NextRun]_vars

\* the matcher called twice
InitPure ==
    /\ pc = "ledger"
    /\ ib_common_txs \in SeqsUpTo(BrokerTxs, MaxIbTxs)
    /\ ledger_common_txs \in SeqsUpTo(PureLedgerTxs, MaxLedgerTxs)
    /\ use_effective_date \in BOOLEAN
    /\ symbols_file = MissingFile
    /\ meta = NoMeta
    /\ mapped = NoPair
    /\ securities_map = [err |-> "", map |-> EmptyMap]
    /\ ib_tx_list = <<>>
    /\ common_txs = [err |-> "", val |-> <<>>]
    /\ common_txs_py = [err |-> "", val |-> <<>>]
    /\ result_output_lines = <<>>
    /\ new_ix = <<>>
    /\ report = ""
    /\ register_rows = <<>>
    /\ ledger_output = <<>>
    /\ InitExt

NextPure == CompareTxs \/ CompareTxsAgain

SpecPure == InitPure /\ [][NextPure]_vars

\* the report file selection on its own
InitFiles ==
    /\ pc = "files"
    /\ files \in Directories
    /\ latest_file = [err |-> "", val |-> ""]
    /\ ledger_output = <<>>
    /\ BaseIdle
    /\ ParserIdle /\ XmlIdle /\ RunIdle /\ AgainIdle /\ TypesIdle

NextFiles == GetLatestFilename

SpecFiles == InitFiles /\ [][NextFiles]_vars

\* the reader of the export with its file selection
InitRead ==
    /\ pc = "export"
    /\ params \in ReadParams
    /\ files \in ReadDirectories
    /\ xml_doc \in ReadDocs
    /\ parsed_cash_txs = [err |-> "", val |-> <<>>]
    /\ start_date_for_ledger = NoStartDate
    /\ comparison_result = ""
    /\ latest_file = [err |-> "", val |-> ""]
    /\ ledger_output = <<>>
    /\ BaseIdle
    /\ ParserIdle /\ AgainIdle /\ TypesIdle

NextRead == ReadFlexReport

SpecRead == InitRead /\ [][NextRead]_vars

\* the two type translators on pairs of codes, known and other
InitTypes ==
    /\ pc = "codes"
    /\ type_codes \in [1..2 -> TypeCodes \cup {"Unknown", "dividends"}]
    /\ kinds = <<>>
    /\ ledger_output = <<>>
    /\ BaseIdle
    /\ ParserIdle /\ XmlIdle /\ RunIdle /\ AgainIdle /\ FilesIdle

NextTypes == TranslateTypes

SpecTypes == InitTypes /\ [][NextTypes]_vars

(***************************************************************************)
(* Properties.                                                             *)
(***************************************************************************)
\* the broker transaction at position i had a line appended for it
Reported(i) == \E k \in 1..Len(new_ix) : new_ix[k] = i

\* the date string a broker transaction is compared on
ComparisonDate(b) == IF use_effective_date THEN strftime_iso(b.date) ELSE b.report_date

\* l agrees with b on date, symbol, currency and type, and offsets its amount
Offsets(l, b) ==
    /\ strftime_iso(l.date) = ComparisonDate(b)
    /\ l.symbol = b.symbol
    /\ l.amount + b.amount = 0
    /\ l.currency = b.currency
    /\ l.type = b.type

HasOffset(b) == \E j \in 1..Len(ledger_common_txs) : Offsets(ledger_common_txs[j], b)

NewLine(b) == "New: " \o CommonTransaction_str(b) \o "\n"

\* C1: compare_txs_py reports a broker transaction as New (appends its "New: "
\* line) if and only if no ledger transaction equals it on comparison date,
\* symbol, currency and type and carries the negated amount.
C1_NewIffNoOffset ==
    pc = "compared" =>
        /\ Len(result_output_lines) = Len(new_ix)
        /\ \A k \in 1..Len(new_ix) :
               result_output_lines[k] = NewLine(ib_common_txs[new_ix[k]])
        /\ \A i \in 1..Len(ib_common_txs) :
               Reported(i) <=> ~HasOffset(ib_common_txs[i])

C1_Witness ==
    /\ pc = "compared"
    /\ \E i, h \in 1..Len(ib_common_txs) :
           /\ Reported(i) /\ ~Reported(h)
           /\ \E j \in 1..Len(ledger_common_txs) :
                  /\ ledger_common_txs[j].type # ib_common_txs[i].type
                  /\ ledger_common_txs[j].amount + ib_common_txs[i].amount = 0

\* the row of the ledger query's output offsets the broker transaction b: same
\* date, same resolved symbol, negated amount, same currency
RowOffsets(row, b) ==
    /\ row.date # NoDate
    /\ strftime_iso(row.date) = ComparisonDate(b)
    /\ Join(FirstToken(row.payee)) = b.symbol
    /\ row.amount + b.amount = 0
    /\ Join(row.commodity) = b.currency

\* C2: end to end, a retained broker transaction for which the ledger register
\* holds a row with the same date, the same resolved symbol, the negated
\* amount and the same currency is not reported as New.
C2_OffsetRowNotNew ==
    pc = "compared" =>
        \A i \in 1..Len(ib_common_txs) :
            (\E r \in 1..Len(register_rows) :
                 RowOffsets(register_rows[r], ib_common_txs[i]))
            => ~Reported(i)

\* l agrees with b on everything but the amount
AgreesButAmount(l, b) ==
    /\ strftime_iso(l.date) = ComparisonDate(b)
    /\ l.symbol = b.symbol
    /\ l.currency = b.currency
    /\ l.type = b.type

\* C3: when the ledger transactions equal a broker transaction of amount X on
\* date, symbol, currency and type, it is matched exactly when one of them has
\* the amount -X; the amount X itself, or one a thousandth away from -X, does
\* not match.
C3_ExactNegatedAmount ==
    pc = "compared" =>
        \A i \in 1..Len(ib_common_txs) :
            (\A j \in 1..Len(ledger_common_txs) :
                 AgreesButAmount(ledger_common_txs[j], ib_common_txs[i]))
            => (~Reported(i) <=>
                    \E j \in 1..Len(ledger_common_txs) :
                        ledger_common_txs[j].amount + ib_common_txs[i].amount = 0)

C3_Witness ==
    /\ pc = "compared"
    /\ \E i \in 1..Len(ib_common_txs) :
           /\ Reported(i)
           /\ ib_common_txs[i].amount # 0
           /\ \A j \in 1..Len(ledger_common_txs) :
                  AgreesButAmount(ledger_common_txs[j], ib_common_txs[i])
           /\ \E j \in 1..Len(ledger_common_txs) :
                  ledger_common_txs[j].amount = ib_common_txs[i].amount
           /\ \E j \in 1..Len(ledger_common_txs) :
                  ledger_common_txs[j].amount + ib_common_txs[i].amount = -1

\* l agrees with b on everything but the date
AgreesButDate(l, b) ==
    /\ l.symbol = b.symbol
    /\ l.amount + b.amount = 0
    /\ l.currency = b.currency
    /\ l.type = b.type

\* C4: a broker transaction is compared on its effective date in effective
\* mode and on its report date string in report mode: among ledger
\* transactions that offset it in everything but the date, it is matched in
\* effective mode exactly by one dated on its effective date, and in report
\* mode exactly by one whose ISO date is its report date.
C4_DateMode ==
    pc = "compared" =>
        \A i \in 1..Len(ib_common_txs) :
            (\A j \in 1..Len(ledger_common_txs) :
                 AgreesButDate(ledger_common_txs[j], ib_common_txs[i]))
            => (~Reported(i) <=>
                    \E j \in 1..Len(ledger_common_txs) :
                        IF use_effective_date
                        THEN ledger_common_txs[j].date = ib_common_txs[i].date
                        ELSE strftime_iso(ledger_common_txs[j].date)
                                 = ib_common_txs[i].report_date)

C4_Witness ==
    /\ pc = "compared"
    /\ ~use_effective_date
    /\ \E i \in 1..Len(ib_common_txs) :
           /\ Reported(i)
           /\ Len(ledger_common_txs) > 0
           /\ \A j \in 1..Len(ledger_common_txs) :
                  /\ AgreesButDate(ledger_common_txs[j], ib_common_txs[i])
                  /\ ledger_common_txs[j].date = ib_common_txs[i].date

\* the broker transactions without an offsetting ledger transaction, in order
Unmatched == SelectSeq(ib_common_txs, LAMBDA b : ~HasOffset(b))

\* C5: the report holds exactly one "New: " line per unmatched broker
\* transaction, in the order those transactions have in the broker list, and
\* nothing else.
C5_OneLinePerUnmatchedInOrder ==
    pc = "compared" =>
        /\ result_output_lines = [k \in 1..Len(Unmatched) |-> NewLine(Unmatched[k])]
        /\ report = Join(result_output_lines)

C5_Witness ==
    /\ pc = "compared"
    /\ Len(ib_common_txs) = 2
    /\ Len(result_output_lines) = 2
    /\ result_output_lines[1] # result_output_lines[2]

C5_WitnessEqualPair ==
    /\ pc = "compared"
    /\ Len(ib_common_txs) = 2
    /\ ib_common_txs[1] = ib_common_txs[2]
    /\ Len(result_output_lines) = 2

RetainedCodes == {"Dividends", "Withholding Tax", "Payment In Lieu Of Dividends"}

KindOf(code) ==
    CASE code = "Dividends" -> "Dividend"
      [] code = "Withholding Tax" -> "WhTax"
      [] code = "Payment In Lieu Of Dividends" -> "PaymentInLieu"

\* the input records of the three reconcilable kinds, in input order
Retainable == SelectSeq(ib_tx_list, LAMBDA t : t.type_code \in RetainedCodes)

\* C6: every transaction convert_ib_txs_into_common returns is a Dividend, a
\* WhTax or a PaymentInLieu, and every input record of one of those kinds is
\* returned: the records of the other recognised kinds are dropped, the
\* withholding-tax records are kept.
C6_OnlyReconcilableKinds ==
    (pc = "converted" /\ common_txs.err = "") =>
        /\ \A k \in 1..Len(common_txs.val) :
               common_txs.val[k].type \in {"Dividend", "WhTax", "PaymentInLieu"}
        /\ Len(common_txs.val) = Len(Retainable)
        /\ \A k \in 1..Len(Retainable) :
               /\ common_txs.val[k].type = KindOf(Retainable[k].type_code)
               /\ common_txs.val[k].amount = Retainable[k].amount
               /\ common_txs.val[k].description = Retainable[k].description

C6_Witness ==
    /\ pc = "converted"
    /\ common_txs.err = ""
    /\ \E k \in 1..Len(common_txs.val) : common_txs.val[k].type = "WhTax"
    /\ \E k \in 1..Len(ib_tx_list) :
           ib_tx_list[k].type_code \in KnownTypeCodes \ RetainedCodes

\* C7: a record with an unknown type code is dropped without aborting the
\* batch: convert_ib_txs_into_common returns, and returns every retainable
\* record of the list.
C7_UnknownCodeDropped ==
    pc = "converted" =>
        /\ common_txs.err = ""
        /\ Len(common_txs.val) = Len(Retainable)

\* C8: the symbol of a retained record is table[s] when its broker symbol s is
\* a key of the resolved table and s otherwise; the value found is not looked
\* up again.
C8_SymbolMappedOnce ==
    (pc = "converted" /\ common_txs.err = "") =>
        /\ Len(common_txs.val) = Len(Retainable)
        /\ \A k \in 1..Len(Retainable) :
               common_txs.val[k].symbol =
                   IF Retainable[k].symbol \in DOMAIN securities_map.map
                   THEN securities_map.map[Retainable[k].symbol]
                   ELSE Retainable[k].symbol

C8_Witness ==
    /\ pc = "converted"
    /\ common_txs.err = ""
    /\ \E k \in 1..Len(Retainable) :
           /\ Retainable[k].symbol \in DOMAIN securities_map.map
           /\ common_txs.val[k].symbol \in DOMAIN securities_map.map
           /\ securities_map.map[common_txs.val[k].symbol] # common_txs.val[k].symbol
    /\ \E k \in 1..Len(Retainable) :
           /\ Retainable[k].symbol \notin DOMAIN securities_map.map
           /\ common_txs.val[k].symbol = Retainable[k].symbol

\* a field of a table row is supplied: neither None nor the empty string
Present(opt) == opt # None /\ opt # Some("")

\* C9: map_symbols returns the ib_symbol as broker key when the row has one,
\* "namespace:symbol" when it has none but has a namespace, and as ledger
\* value the ledger_symbol when the row has one, the canonical symbol
\* otherwise.
C9_MapSymbolsKeys ==
    meta # NoMeta =>
        /\ Present(meta.ib_symbol) =>
               /\ mapped.err = ""
               /\ mapped.ib_symbol = meta.ib_symbol[1]
        /\ (~Present(meta.ib_symbol) /\ Present(meta.namespace)) =>
               /\ mapped.err = ""
               /\ mapped.ib_symbol = meta.namespace[1] \o ":" \o meta.symbol
        /\ mapped.err = "" =>
               mapped.ledger_symbol = IF Present(meta.ledger_symbol)
                                      THEN meta.ledger_symbol[1] ELSE meta.symbol

C9_Witness ==
    /\ meta # NoMeta
    /\ Present(meta.ib_symbol)
    /\ Present(meta.namespace)
    /\ ~Present(meta.ledger_symbol)
    /\ mapped.ib_symbol = meta.ib_symbol[1]
    /\ mapped.ledger_symbol = meta.symbol

\* the rows of the table that supply a broker-native symbol or a namespace
AcceptedRows ==
    {i \in 1..Len(symbols_file.rows) :
         Present(symbols_file.rows[i].ib_symbol) \/ Present(symbols_file.rows[i].namespace)}

KeyOfRow(row) ==
    IF Present(row.ib_symbol) THEN row.ib_symbol[1]
    ELSE row.namespace[1] \o ":" \o row.symbol

\* C10: load_symbols succeeds, a row that supplies neither a broker-native
\* symbol nor a namespace (None or the empty string) contributes no key, and
\* every other row contributes its key.
C10_RowsWithoutKeySkipped ==
    (pc = "loaded" /\ symbols_file.exists) =>
        /\ securities_map.err = ""
        /\ DOMAIN securities_map.map =
               {KeyOfRow(symbols_file.rows[i]) : i \in AcceptedRows}

C10_NoneRowsSkipped ==
    /\ pc = "loaded"
    /\ symbols_file.exists
    /\ Len(symbols_file.rows) = 2
    /\ symbols_file.rows[1].ib_symbol = None
    /\ symbols_file.rows[1].namespace = None
    /\ DOMAIN securities_map.map = {KeyOfRow(symbols_file.rows[2])}

\* C11: when the symbol table's file does not exist, convert_ib_txs_into_common
\* does not fail for it: it works with an empty table and returns every
\* retained record with the symbol the broker gave it.
C11_MissingTableNotFatal ==
    (pc = "converted" /\ ~symbols_file.exists) =>
        /\ common_txs.err # "FileNotFoundError"
        /\ securities_map.map = EmptyMap
        /\ (\A k \in 1..Len(ib_tx_list) : ib_tx_list[k].type_code \in KnownTypeCodes) =>
               /\ common_txs.err = ""
               /\ Len(common_txs.val) = Len(Retainable)
               /\ \A k \in 1..Len(Retainable) :
                      common_txs.val[k].symbol = Retainable[k].symbol

C11_Witness ==
    /\ pc = "converted"
    /\ ~symbols_file.exists
    /\ common_txs.err = ""
    /\ Len(common_txs.val) = 2
    /\ common_txs.val[1].symbol = "BRK B"

\* the text of a register line's columns
DateCol(line) == Strip(Slice(line, 0, ColDateEnd))

PayeeCol(line) == Strip(Slice(line, ColPayee, ColAccount))

AccountCol(line) == Strip(Slice(line, ColAccount, ColAmount))

AmountCol(line) == Strip(Slice(line, ColAmount, ColAmountEnd))

AmountTokens(line) == Len(Split(AmountCol(line)))

\* the amount column holds a number and a commodity
WellFormedAmount(line) ==
    /\ AmountTokens(line) = 2
    /\ Decimal(RemoveCommas(Split(AmountCol(line))[1])).err = ""

AmountOf(line) == Decimal(RemoveCommas(Split(AmountCol(line))[1])).val

IsHeaderRow(line) ==
    /\ DateCol(line) # <<>>
    /\ strptime_iso(DateCol(line)).err = ""
    /\ PayeeCol(line) # <<>>
    /\ AccountCol(line) # <<>>
    /\ WellFormedAmount(line)

IsPostingRow(line) ==
    /\ DateCol(line) = <<>>
    /\ PayeeCol(line) = <<>>
    /\ AccountCol(line) # <<>>
    /\ WellFormedAmount(line)

\* header rows, each followed by posting rows
IsBlock(lines) ==
    /\ lines # <<>>
    /\ IsHeaderRow(lines[1])
    /\ \A i \in 1..Len(lines) : IsHeaderRow(lines[i]) \/ IsPostingRow(lines[i])

\* the nearest header row at or before line i of a block
HeaderOf(lines, i) ==
    lines[CHOOSE h \in 1..i :
              /\ IsHeaderRow(lines[h])
              /\ \A g \in (h + 1)..i : ~IsHeaderRow(lines[g])]

\* C12: clean_up_register_output followed by get_rows_from_register turns a
\* block of header rows, each followed by posting rows with blank date and
\* payee, into one record per line, in line order, each with its own amount
\* and with the date and payee of the nearest header row.
C12_BlockRoundTrip ==
    (pc = "rows" /\ IsBlock(ledger_output)) =>
        /\ Len(ledger_common_txs) = Len(ledger_output)
        /\ \A i \in 1..Len(ledger_output) :
               /\ ledger_common_txs[i].amount = AmountOf(ledger_output[i])
               /\ ledger_common_txs[i].date =
                      strptime_iso(DateCol(HeaderOf(ledger_output, i))).val
               /\ ledger_common_txs[i].payee = Join(PayeeCol(HeaderOf(ledger_output, i)))

\* C13: get_row_from_register_line, given a posting row and the record of the
\* row before it, returns a record with that record's date and payee, the
\* posting row's own account and amount, and the ISO string of the inherited
\* date as report_date.
C13_PostingRowInherits ==
    (row_line # <<>> /\ IsPostingRow(row_line) /\ row_header # <<>>) =>
        /\ row_result.err = ""
        /\ row_result.val.date = row_header[1].date
        /\ row_result.val.payee = row_header[1].payee
        /\ row_result.val.account = Join(AccountCol(row_line))
        /\ row_result.val.amount = AmountOf(row_line)
        /\ row_result.val.report_date = strftime_iso(row_header[1].date)

Retained(lines, short) ==
    SelectSeq(lines, LAMBDA l : /\ Strip(l) # <<>>
                                /\ IF Len(l) > ColSkipProbe
                                   THEN l[ColSkipProbe + 1] # " " ELSE short)

\* C20: clean_up_register_output completes normally on every list of lines,
\* also on non-blank lines shorter than 51 characters, and returns in input
\* order the lines that are non-blank and have no space at offset 50.
C20_CleanUpTotal ==
    pc = "cleaned" =>
        /\ cleaned_lines.err = ""
        /\ \E short \in BOOLEAN :
               [k \in 1..Len(cleaned_lines.val) |-> Strip(cleaned_lines.val[k])]
               = [k \in 1..Len(Retained(ledger_output, short)) |->
                      Strip(Retained(ledger_output, short)[k])]

\* the element has a dateTime that parses and an amount that parses
WellFormedElem(e) ==
    /\ e.dateTime # None
    /\ e.dateTime[1] # <<>>
    /\ (IF Len(e.dateTime[1]) = DateTimeLength
        THEN strptime_datetime(e.dateTime[1]) ELSE strptime_date(e.dateTime[1])).err = ""
    /\ Decimal(AttrOr(e.amount, <<"0">>)).err = ""

WellFormedElems == SelectSeq(xml_doc.cash_transactions[1], WellFormedElem)

\* C15: from_xml_content skips, each on its own, the records whose dateTime is
\* missing or malformed or whose amount does not parse, and returns the other
\* records of the document in document order.
C15_MalformedRecordSkipped ==
    (pc = "parsed" /\ xml_doc.parses /\ xml_doc.cash_transactions # None) =>
        /\ parsed_cash_txs.err = ""
        /\ Len(parsed_cash_txs.val) = Len(WellFormedElems)
        /\ \A k \in 1..Len(WellFormedElems) :
               /\ parsed_cash_txs.val[k].amount =
                      Decimal(AttrOr(WellFormedElems[k].amount, <<"0">>)).val
               /\ DateOf(parsed_cash_txs.val[k].date_time_obj) =
                      DateOf(strptime_date(SplitOn(WellFormedElems[k].dateTime[1], ";")[1]).val)

\* the comparison date of a broker transaction is not below the start date
NotBefore(start, tx) == ~StrLess(get_comparison_date_py(tx, use_effective_date), start)

\* C16: the start date of the ledger query is derived from the oldest broker
\* transaction: whenever get_oldest_ib_date_py has been applied to a non-empty
\* list of broker transactions it has returned a date, that date is the
\* comparison date of one of them and is less than or equal to the comparison
\* date of every one of them; and a run of compare_py on a report file that
\* exists does not end in the unexpected-error message.
C16_StartDateFromOldest ==
    /\ (pc = "oldest" /\ ib_common_txs # <<>>) =>
           /\ start_date_for_ledger.err = ""
           /\ \E i \in 1..Len(ib_common_txs) :
                  start_date_for_ledger.val =
                      get_comparison_date_py(ib_common_txs[i], use_effective_date)
           /\ \A i \in 1..Len(ib_common_txs) :
                  NotBefore(start_date_for_ledger.val, ib_common_txs[i])
    /\ (pc = "returned" /\ params.flex_report_path = Some("report.xml") /\ params.exists) =>
           comparison_result
               # "Error: An unexpected error occurred - name 'logging' is not defined\n"

Matching == {i \in 1..Len(files) : files[i].matches}

\* C19: get_latest_filename returns one of the files matching the pattern, and
\* no matching file has a later creation/change time than the returned one;
\* when no file matches it raises FileNotFoundError and returns no path.
C19_LatestMatchingFile ==
    pc = "latest" =>
        IF Matching = {}
        THEN latest_file.err = "FileNotFoundError" /\ latest_file.val = ""
        ELSE /\ latest_file.err = ""
             /\ \E i \in Matching :
                    /\ files[i].name = latest_file.val
                    /\ \A j \in Matching : files[j].ctime <= files[i].ctime

C19_Witness ==
    /\ pc = "latest"
    /\ Len(files) = 3
    /\ Matching = {1, 3}
    /\ files[2].ctime > files[3].ctime
    /\ files[3].ctime > files[1].ctime
    /\ latest_file.val = files[3].name

\* C21: the record of a register line has as symbol the first
\* whitespace-delimited token of the payee column when the character at index 1
\* of the line is not blank, and the empty string when it is blank: applied to
\* a header row, or to a posting row and the record before it,
\* get_row_from_register_line returns a record with that symbol.
C21_SymbolOfHeaderRowOnly ==
    (/\ row_line # <<>>
     /\ \/ IsHeaderRow(row_line)
        \/ IsPostingRow(row_line) /\ row_header # <<>>) =>
        /\ row_result.err = ""
        /\ row_result.val.symbol = IF row_line[2] # " "
                                   THEN Join(Split(PayeeCol(row_line))[1])
                                   ELSE ""

\* the commodity the amount column of a line carries
CurrencyToken(line) == Join(Split(AmountCol(line))[2])

\* C22: every record the register parser emits has currency "EUR" whatever
\* commodity the amount column carries, and its report_date is the ISO string
\* of its date: get_row_from_register_line applied to a header row whose amount
\* is in another commodity returns such a record.
C22_CurrencyAlwaysEUR ==
    (/\ row_line # <<>>
     /\ IsHeaderRow(row_line)
     /\ CurrencyToken(row_line) # "EUR") =>
        /\ row_result.err = ""
        /\ row_result.val.currency = "EUR"
        /\ row_result.val.report_date = strftime_iso(row_result.val.date)
        /\ row_result.val.date = strptime_iso(DateCol(row_line)).val

\* the rows of the table that resolve to the broker key k, in table order
RowsOfKey(k) ==
    {i \in 1..Len(symbols_file.rows) :
         /\ map_symbols(symbols_file.rows[i]).err = ""
         /\ map_symbols(symbols_file.rows[i]).ib_symbol = k}

Last(S) == CHOOSE i \in S : \A j \in S : j <= i

\* C23: when several accepted rows of the symbol table resolve to the same
\* broker key, the map load_symbols returns holds for that key the ledger
\* value of the last of them in table order.
C23_LastRowWins ==
    (pc = "loaded" /\ symbols_file.exists) =>
        \A k \in DOMAIN securities_map.map :
            /\ RowsOfKey(k) # {}
            /\ securities_map.map[k] =
                   map_symbols(symbols_file.rows[Last(RowsOfKey(k))]).ledger_symbol

C23_Witness ==
    /\ pc = "loaded"
    /\ Len(symbols_file.rows) = 2
    /\ RowsOfKey("BRK B") = {1, 2}
    /\ map_symbols(symbols_file.rows[1]).ledger_symbol = "BRK-B"
    /\ map_symbols(symbols_file.rows[2]).ledger_symbol = "BRK.B"
    /\ securities_map.map["BRK B"] = "BRK.B"

\* C24: whenever read_flex_report returns, its list is a permutation of the cash
\* transactions extracted from the export, non-decreasing in the key (timestamp,
\* broker symbol, raw type code), records of equal key in document order
C24_ReadFlexReportSorted ==
    pc = "read" =>
        LET src == parsed_cash_txs.val
            out == ib_tx_list
            n == Len(src)
        IN /\ Len(out) = n
           /\ \E p \in Permutations(1..n) :
                  /\ \A i \in 1..n : out[i] = src[p[i]]
                  /\ \A i, j \in 1..n :
                         i < j => /\ ~RawLess(out[j], out[i])
                                  /\ ~RawLess(out[i], out[j]) => p[i] < p[j]

\* a returned list that the sort reordered
C24_Witness ==
    /\ pc = "read"
    /\ Len(ib_tx_list) = 2
    /\ ib_tx_list # parsed_cash_txs.val
    /\ ib_tx_list[1].date_time_obj = ib_tx_list[2].date_time_obj

\* whether common_tx carries the dates, amount, currency and description of ib_tx
SameBusinessData(common_tx, ib_tx) ==
    /\ common_tx.date = DateOf(ib_tx.date_time_obj)
    /\ common_tx.report_date = ib_tx.report_date_str
    /\ common_tx.amount = ib_tx.amount
    /\ common_tx.currency = ib_tx.currency
    /\ common_tx.description = ib_tx.description

\* C25: whenever convert_ib_txs_into_common returns, its list is an
\* order-preserving subsequence of the input: each output record comes from
\* an input record later than the one before it came from, and has that
\* record's effective date, report date, amount, currency and description
C25_OrderPreservingSubsequence ==
    (pc = "converted" /\ common_txs.err = "") =>
        \E f \in [1..Len(common_txs.val) -> 1..Len(ib_tx_list)] :
            /\ \A k \in 1..Len(common_txs.val) :
                   SameBusinessData(common_txs.val[k], ib_tx_list[f[k]])
            /\ \A k, l \in 1..Len(common_txs.val) : k < l => f[k] < f[l]

\* two different records retained, the symbol of one rewritten by the table
C25_Witness ==
    /\ pc = "converted" /\ common_txs.err = ""
    /\ Len(common_txs.val) = 2
    /\ common_txs.val[1].amount # common_txs.val[2].amount
    /\ \E k \in 1..2 : common_txs.val[k].symbol # ib_tx_list[k].symbol
\* list in the order p: position k holds list[p[k]]
Permuted(list, p) == [k \in 1..Len(list) |-> list[p[k]]]

\* how often x occurs in list
Count(list, x) == Cardinality({k \in 1..Len(list) : list[k] = x})

SameMultiset(a, b) ==
    /\ Len(a) = Len(b)
    /\ \A k \in 1..Len(a) : Count(a, a[k]) = Count(b, a[k])

\* C26: for any permutation of the broker list and of the ledger list,
\* compare_txs_py reports the same multiset of lines; with the broker list as
\* given and the ledger list permuted it reports the same transactions as New
C26_OrderIndependent ==
    pc \in {"compared", "compared_again"} =>
        \A p \in Permutations(1..Len(ib_common_txs)),
           q \in Permutations(1..Len(ledger_common_txs)) :
            /\ SameMultiset(Lines(compare_txs_new(Permuted(ib_common_txs, p),
                                                   Permuted(ledger_common_txs, q),
                                                   use_effective_date)),
                            result_output_lines)
            /\ LET again == compare_txs_new(ib_common_txs,
                                            Permuted(ledger_common_txs, q),
                                            use_effective_date)
               IN [k \in 1..Len(again) |-> again[k].ix] = new_ix

\* two different broker transactions, one of them reported, and two different
\* ledger transactions, the second of which is a match
C26_Witness ==
    /\ pc = "compared"
    /\ Len(ib_common_txs) = 2 /\ ib_common_txs[1] # ib_common_txs[2]
    /\ Len(ledger_common_txs) = 2 /\ ledger_common_txs[1] # ledger_common_txs[2]
    /\ Len(new_ix) = 1
    /\ \E i \in 1..2 :
           /\ IsMatch(ledger_common_txs[2], ib_common_txs[i],
                      get_comparison_date_py(ib_common_txs[i], use_effective_date))
           /\ ~IsMatch(ledger_common_txs[1], ib_common_txs[i],
                       get_comparison_date_py(ib_common_txs[i], use_effective_date))

\* C27: a ledger transaction is not consumed by a match: every broker
\* transaction equal to one that a ledger transaction offsets is matched as
\* well, however many there are, and none of them is reported as New
C27_LedgerNotConsumed ==
    pc \in {"compared", "compared_again"} =>
        \A i, k \in 1..Len(ib_common_txs) :
            (/\ ib_common_txs[k] = ib_common_txs[i]
             /\ \E j \in 1..Len(ledger_common_txs) :
                    IsMatch(ledger_common_txs[j], ib_common_txs[i],
                            get_comparison_date_py(ib_common_txs[i], use_effective_date)))
            => \A n \in 1..Len(new_ix) : new_ix[n] # k

\* two equal broker transactions and a single ledger transaction offsetting
\* them: nothing is reported
C27_Witness ==
    /\ pc = "compared"
    /\ Len(ib_common_txs) = 2 /\ ib_common_txs[1] = ib_common_txs[2]
    /\ Len(ledger_common_txs) = 1
    /\ IsMatch(ledger_common_txs[1], ib_common_txs[1],
               get_comparison_date_py(ib_common_txs[1], use_effective_date))
    /\ result_output_lines = <<>>
    /\ report = ""

\* C28: a run of compare_py whose report holds no cash transaction, so that
\* normalization yields no broker transaction, ends with the message "No new
\* IB transactions found to process. Exiting..." before any start date is
\* derived
C28_EmptyRunEndsWithMessage ==
    (/\ pc = "returned"
     /\ params.flex_report_path = Some("report.xml")
     /\ params.exists
     /\ params.content = NoDoc) =>
        /\ comparison_result = "No new IB transactions found to process. Exiting...\n"
        /\ start_date_for_ledger = NoStartDate

\* C29: a run of compare_py returns a string that names what ended it: the
\* report file when that is missing, and the symbol table when the report can
\* be read and the symbol table is missing
C29_ErrorNamesCause ==
    pc = "returned" =>
        /\ (params.flex_report_path = Some("report.xml") /\ ~params.exists) =>
               comparison_result
                   = "Error: File not found - Report file not found: report.xml\n"
        /\ (params.flex_report_path = Some("report.xml") /\ params.exists
                /\ ~symbols_file.exists) =>
               comparison_result
                   = Caught([err |-> "FileNotFoundError",
                             msg |-> "The symbols file symbols.csv does not exist!"])

\* C30: on each of the ten known type codes cash_action and
\* get_cash_action_string return the same kind, different known codes get
\* different kinds, and "Withholding Tax" gets WhTax; on any other code
\* cash_action returns "Unknown" and get_cash_action_string raises
C30_TranslatorsAgree ==
    pc = "translated" =>
        /\ \A k \in 1..Len(type_codes) :
               IF type_codes[k] \in KnownTypeCodes
               THEN /\ kinds[k].get_cash_action_string.err = ""
                    /\ kinds[k].cash_action = kinds[k].get_cash_action_string.val
                    /\ kinds[k].cash_action # "Unknown"
                    /\ type_codes[k] = "Withholding Tax" => kinds[k].cash_action = "WhTax"
               ELSE /\ kinds[k].cash_action = "Unknown"
                    /\ kinds[k].get_cash_action_string.err = "ValueError"
        /\ \A k, l \in 1..Len(type_codes) :
               (/\ type_codes[k] \in KnownTypeCodes
                /\ type_codes[l] \in KnownTypeCodes
                /\ type_codes[k] # type_codes[l]) =>
                   /\ kinds[k].cash_action # kinds[l].cash_action
                   /\ kinds[k].get_cash_action_string.val
                          # kinds[l].get_cash_action_string.val

\* the translators applied to two different known codes, one of them the fees
C30_Witness ==
    /\ pc = "translated"
    /\ type_codes = <<"Other Fees", "Commission Adjustments">>
    /\ kinds[1].cash_action = "Fees"
    /\ kinds[2].get_cash_action_string.val = "CommAdj"

====
